---- MODULE Spec2Model ----
(***************************************************************************)
(* A model of the teaching compiler: the lexer, the recursive-descent      *)
(* parser, semantic analysis, three-address IR construction, the           *)
(* fold-and-eliminate optimizer, bytecode lowering, peephole cleanup and    *)
(* the bytecode VM, composed as CompilerService does.  Spec starts from the *)
(* token list lex has returned; LexSpec runs the lexer alone over texts.    *)
(*                                                                         *)
(* Texts (operand names, labels, numeric literals, output lines) are        *)
(* sequences of one-character strings, so that the code's tests on the      *)
(* spelling of a name (is_temp, float(x)) are computed, not assumed.        *)
(* VM values are Python floats; they are modelled as exact rationals        *)
(* <<n, d>> in lowest terms, which is what the doubles hold for the small   *)
(* operands of the programs explored here.                                  *)
(***************************************************************************)
EXTENDS Integers, Sequences, FiniteSets, TLC

(***************************************************************************)
(* Bounds of the exploration.                                               *)
(***************************************************************************)
MaxLit == 2        \* integer literals of generated programs are 0..MaxLit
MaxSteps == 60     \* VM steps explored per run
MaxFrac == 4       \* fractional digits a printed non-integer may need
MaxPieces == 4     \* pieces a short text given to the lexer is made of

None == <<>>       \* Python's None where a text or a node is optional

(***************************************************************************)
(* Numbers: a finite float is <<n, d>> with d > 0 and gcd(n, d) = 1; the    *)
(* floats that are no numbers are inf = <<1, 0>>, -inf = <<-1, 0>> and      *)
(* nan = <<0, 0>>.                                                          *)
(***************************************************************************)
Abs(n) == IF n < 0 THEN 0 - n ELSE n
Sgn(n) == IF n < 0 THEN 0 - 1 ELSE IF n > 0 THEN 1 ELSE 0

RECURSIVE Gcd(_, _)
Gcd(a, b) == IF b = 0 THEN a ELSE Gcd(b, a % b)

Norm(n, d) ==
  LET s == IF d < 0 THEN 0 - 1 ELSE 1
      g == Gcd(Abs(n), Abs(d))
  IN  <<(s * n) \div g, (s * d) \div g>>

Num(n) == <<n, 1>>
Inf == <<1, 0>>
NaN == <<0, 0>>
IsNaN(a) == a = NaN
IsInf(a) == a[2] = 0 /\ a[1] # 0
FNeg(a) == <<0 - a[1], a[2]>>
FAdd(a, b) ==
  IF IsNaN(a) \/ IsNaN(b) THEN NaN
  ELSE IF IsInf(a) THEN (IF IsInf(b) /\ b # a THEN NaN ELSE a)
  ELSE IF IsInf(b) THEN b
  ELSE Norm(a[1] * b[2] + b[1] * a[2], a[2] * b[2])
FSub(a, b) == FAdd(a, FNeg(b))
FMul(a, b) ==
  IF IsNaN(a) \/ IsNaN(b) THEN NaN
  ELSE IF IsInf(a) \/ IsInf(b)
       THEN (IF a[1] = 0 \/ b[1] = 0 THEN NaN ELSE <<Sgn(a[1]) * Sgn(b[1]), 0>>)
  ELSE Norm(a[1] * b[1], a[2] * b[2])
\* a / b for b # 0
FDiv(a, b) ==
  IF IsNaN(a) \/ IsNaN(b) THEN NaN
  ELSE IF IsInf(a) THEN (IF IsInf(b) THEN NaN ELSE <<Sgn(a[1]) * Sgn(b[1]), 0>>)
  ELSE IF IsInf(b) THEN Num(0)
  ELSE Norm(a[1] * b[2], a[2] * b[1])
FLt(a, b) ==
  /\ ~IsNaN(a)
  /\ ~IsNaN(b)
  /\ IF IsInf(a) /\ IsInf(b) THEN a[1] < b[1] ELSE a[1] * b[2] < b[1] * a[2]
FLe(a, b) ==
  /\ ~IsNaN(a)
  /\ ~IsNaN(b)
  /\ IF IsInf(a) /\ IsInf(b) THEN a[1] <= b[1] ELSE a[1] * b[2] <= b[1] * a[2]
\* a == b on floats: nan equals nothing
FEq(a, b) == ~IsNaN(a) /\ a = b
IsZero(a) == a[1] = 0 /\ a[2] # 0
is_integer(a) == a[2] = 1
\* int(v) raises OverflowError on an infinity and ValueError on nan
int_raises(a) == a[2] = 0
\* int(v): truncation toward zero
PyInt(a) == IF a[1] < 0 THEN 0 - (Abs(a[1]) \div a[2]) ELSE a[1] \div a[2]
\* Python's a % b on ints, b # 0: the result has the sign of b
PyMod(a, b) == IF b > 0 THEN a % b ELSE 0 - ((0 - a) % (0 - b))

(***************************************************************************)
(* Texts.                                                                   *)
(***************************************************************************)
DigitChars == {"0", "1", "2", "3", "4", "5", "6", "7", "8", "9"}
DigitVal(c) == CHOOSE v \in 0..9 : ToString(v) = c

RECURSIVE Digits(_)
Digits(n) == IF n < 10 THEN <<ToString(n)>>
             ELSE Digits(n \div 10) \o <<ToString(n % 10)>>

\* str(int)
IntText(n) == IF n < 0 THEN <<"-">> \o Digits(0 - n) ELSE Digits(n)

RECURSIVE Pow10(_)
Pow10(k) == IF k = 0 THEN 1 ELSE 10 * Pow10(k - 1)

RECURSIVE PadLeft(_, _)
PadLeft(t, k) == IF Len(t) >= k THEN t ELSE PadLeft(<<"0">> \o t, k)

\* str(float): shortest decimal text; integral floats print as "n.0"
FloatText(a) ==
  IF IsNaN(a) THEN <<"n", "a", "n">>
  ELSE IF IsInf(a)
       THEN (IF a[1] < 0 THEN <<"-">> ELSE <<>>) \o <<"i", "n", "f">>
  ELSE IF a[2] = 1 THEN IntText(a[1]) \o <<".", "0">>
  ELSE LET k == CHOOSE j \in 1..MaxFrac :
                  /\ (Abs(a[1]) * Pow10(j)) % a[2] = 0
                  /\ \A i \in 1..(j - 1) : (Abs(a[1]) * Pow10(i)) % a[2] # 0
           scaled == (Abs(a[1]) * Pow10(k)) \div a[2]
       IN  (IF a[1] < 0 THEN <<"-">> ELSE <<>>)
             \o Digits(scaled \div Pow10(k))
             \o <<".">> \o PadLeft(Digits(scaled % Pow10(k)), k)

AllDigits(t) == Len(t) > 0 /\ \A i \in 1..Len(t) : t[i] \in DigitChars

RECURSIVE DigitsVal(_)
DigitsVal(t) == IF Len(t) = 0 THEN 0
                ELSE 10 * DigitsVal(SubSeq(t, 1, Len(t) - 1)) + DigitVal(t[Len(t)])

\* the unsigned decimal forms float() accepts: 12  12.  .5  12.5
UnsignedVal(t) ==
  IF AllDigits(t) THEN Num(DigitsVal(t))
  ELSE IF \E p \in 1..Len(t) :
            /\ t[p] = "."
            /\ Len(t) > 1
            /\ \A i \in 1..Len(t) : i # p => t[i] \in DigitChars
       THEN LET p == CHOOSE q \in 1..Len(t) : t[q] = "."
                ip == SubSeq(t, 1, p - 1)
                fp == SubSeq(t, p + 1, Len(t))
            IN  Norm(DigitsVal(ip) * Pow10(Len(fp)) + DigitsVal(fp), Pow10(Len(fp)))
       ELSE None

\* the letters of the words float() reads, whatever their case
Lower(c) ==
  CASE c = "I" -> "i" [] c = "N" -> "n" [] c = "F" -> "f" [] c = "T" -> "t"
    [] c = "Y" -> "y" [] c = "A" -> "a" [] OTHER -> c
LowerText(t) == [i \in 1..Len(t) |-> Lower(t[i])]

\* the unsigned forms float() accepts: the decimal forms, and the words inf,
\* infinity and nan in any case
UnsignedFloat(t) ==
  IF LowerText(t) \in {<<"i", "n", "f">>, <<"i", "n", "f", "i", "n", "i", "t", "y">>}
  THEN Inf
  ELSE IF LowerText(t) = <<"n", "a", "n">> THEN NaN
  ELSE UnsignedVal(t)

\* float(x), None where Python raises ValueError
ParseFloat(t) ==
  IF Len(t) = 0 THEN None
  ELSE IF t[1] \in {"-", "+"}
       THEN LET signed(u) == IF u = None THEN None
                             ELSE IF t[1] = "-" THEN FNeg(u) ELSE u
            IN  signed(UnsignedFloat(Tail(t)))
       ELSE UnsignedFloat(t)

(***************************************************************************)
(* AST nodes (domain/ast_nodes.py).  Every expression node carries the      *)
(* inferred_type slot, NoType until semantics fills it.                     *)
(***************************************************************************)
NoType == "None"
NoNode == [k |-> "None"]

Param(type, name) == [type |-> type, name |-> name]
Program(body) == [k |-> "Program", body |-> body]
FunctionDecl(return_type, name, params, body) ==
  [k |-> "FunctionDecl", return_type |-> return_type, name |-> name,
   params |-> params, body |-> body]
Block(statements) == [k |-> "Block", statements |-> statements]
VarDecl(var_type, name, init) ==
  [k |-> "VarDecl", var_type |-> var_type, name |-> name, init |-> init]
If(cond, then_branch, else_branch) ==
  [k |-> "If", cond |-> cond, then_branch |-> then_branch, else_branch |-> else_branch]
While(cond, body) == [k |-> "While", cond |-> cond, body |-> body]
For(init, cond, post, body) ==
  [k |-> "For", init |-> init, cond |-> cond, post |-> post, body |-> body]
PrintStmt(expr) == [k |-> "Print", expr |-> expr]
Return(expr) == [k |-> "Return", expr |-> expr]
ExprStmt(expr) == [k |-> "ExprStmt", expr |-> expr]

Assign(name, value) ==
  [k |-> "Assign", name |-> name, value |-> value, inferred_type |-> NoType]
Call(name, args) ==
  [k |-> "Call", name |-> name, args |-> args, inferred_type |-> NoType]
\* value is the number the parser converted the lexeme to; a bool is 1 or 0
Literal(value, kind) ==
  [k |-> "Literal", value |-> value, kind |-> kind, inferred_type |-> NoType]
Var(name) == [k |-> "Var", name |-> name, inferred_type |-> NoType]
Unary(op, right) == [k |-> "Unary", op |-> op, right |-> right, inferred_type |-> NoType]
Binary(left, op, right) ==
  [k |-> "Binary", left |-> left, op |-> op, right |-> right, inferred_type |-> NoType]
Grouping(expr) == [k |-> "Grouping", expr |-> expr, inferred_type |-> NoType]

ExprKinds == {"Assign", "Call", "Literal", "Var", "Unary", "Binary", "Grouping"}

(***************************************************************************)
(* Tokens (domain/tokens.py).  A lexeme is a text; the words the language   *)
(* fixes are spelled out once, with the token type the lexer gives each.    *)
(***************************************************************************)
Token(type, lexeme, line, col) ==
  [type |-> type, lexeme |-> lexeme, line |-> line, col |-> col]

KEYWORDS ==
  {<<"int", "KW_INT">>, <<"float", "KW_FLOAT">>, <<"bool", "KW_BOOL">>,
   <<"void", "KW_VOID">>, <<"if", "KW_IF">>, <<"else", "KW_ELSE">>,
   <<"while", "KW_WHILE">>, <<"for", "KW_FOR">>, <<"return", "KW_RETURN">>,
   <<"print", "KW_PRINT">>, <<"true", "BOOL_LIT">>, <<"false", "BOOL_LIT">>}

\* the two-character and the one-character operators of Lexer.tokenize
single_map ==
  {<<"<=", "LE">>, <<">=", "GE">>, <<"==", "EQ">>, <<"!=", "NE">>,
   <<"&&", "AND">>, <<"||", "OR">>,
   <<"+", "PLUS">>, <<"-", "MINUS">>, <<"*", "STAR">>, <<"/", "SLASH">>,
   <<"%", "PERCENT">>, <<"(", "LPAREN">>, <<")", "RPAREN">>, <<"{", "LBRACE">>,
   <<"}", "RBRACE">>, <<",", "COMMA">>, <<";", "SEMI">>, <<"!", "BANG">>,
   <<"=", "ASSIGN">>, <<"<", "LT">>, <<">", "GT">>}

Words == {w[1] : w \in KEYWORDS \cup single_map}
TypeOfWord(s) == (CHOOSE w \in KEYWORDS \cup single_map : w[1] = s)[2]

\* the characters of a fixed word
Spell(s) ==
  CASE s = "int" -> <<"i", "n", "t">>
    [] s = "float" -> <<"f", "l", "o", "a", "t">>
    [] s = "bool" -> <<"b", "o", "o", "l">>
    [] s = "void" -> <<"v", "o", "i", "d">>
    [] s = "if" -> <<"i", "f">>
    [] s = "else" -> <<"e", "l", "s", "e">>
    [] s = "while" -> <<"w", "h", "i", "l", "e">>
    [] s = "for" -> <<"f", "o", "r">>
    [] s = "return" -> <<"r", "e", "t", "u", "r", "n">>
    [] s = "print" -> <<"p", "r", "i", "n", "t">>
    [] s = "true" -> <<"t", "r", "u", "e">>
    [] s = "false" -> <<"f", "a", "l", "s", "e">>
    [] s = "<=" -> <<"<", "=">>
    [] s = ">=" -> <<">", "=">>
    [] s = "==" -> <<"=", "=">>
    [] s = "!=" -> <<"!", "=">>
    [] s = "&&" -> <<"&", "&">>
    [] s = "||" -> <<"|", "|">>
    [] OTHER -> <<s>>

\* a type keyword's or an operator's lexeme as the tree stores it
Text(lexeme) == CHOOSE s \in Words : Spell(s) = lexeme

(***************************************************************************)
(* Lexer (pipeline/lexer.py).  The lexer object is the record               *)
(* [src, pos, line, col, n], src being the text as a sequence of            *)
(* characters; the field out is the local list of tokenize, and returned    *)
(* tells that tokenize has returned it.  expect is a history field: for     *)
(* the text of a program, the token list the pipeline is started from.      *)
(* NUL is the character '\0', which _peek also gives past the end of the    *)
(* text.                                                                    *)
(***************************************************************************)
NUL == "NUL"
LowerCase == {"a", "b", "c", "d", "e", "f", "g", "h", "i", "j", "k", "l", "m",
              "n", "o", "p", "q", "r", "s", "t", "u", "v", "w", "x", "y", "z"}
UpperCase == {"A", "B", "C", "D", "E", "F", "G", "H", "I", "J", "K", "L", "M",
              "N", "O", "P", "Q", "R", "S", "T", "U", "V", "W", "X", "Y", "Z"}
isalpha(ch) == ch \in LowerCase \cup UpperCase
isdigit(ch) == ch \in DigitChars
isalnum(ch) == isalpha(ch) \/ isdigit(ch)

Lexer(src) ==
  [src |-> src, pos |-> 0, line |-> 1, col |-> 1, n |-> Len(src),
   out |-> <<>>, returned |-> FALSE, expect |-> None]

lex_peek(lx, k) == IF lx.pos + k < lx.n THEN lx.src[lx.pos + k + 1] ELSE NUL

\* an _advance that counts a newline as one more column
lex_advance_flat(lx) == [lx EXCEPT !.pos = @ + 1, !.col = @ + 1]

lex_advance(lx) ==
  IF lex_peek(lx, 0) = "\n"
  THEN [lx EXCEPT !.pos = @ + 1, !.line = @ + 1, !.col = 1]
  ELSE [lx EXCEPT !.pos = @ + 1, !.col = @ + 1]

\* while self._peek() not in ('\n', '\0'): self._advance()
RECURSIVE skip_line_comment(_)
skip_line_comment(lx) ==
  IF lex_peek(lx, 0) \in {"\n", NUL} THEN lx ELSE skip_line_comment(lex_advance(lx))

\* the loop over the body of a block comment; it ends in front of */ or, the
\* comment being open still, at a '\0'
RECURSIVE skip_block_comment(_)
skip_block_comment(lx) ==
  IF lex_peek(lx, 0) = "*" /\ lex_peek(lx, 1) = "/" THEN lx
  ELSE IF lex_peek(lx, 0) = NUL THEN lx
  ELSE skip_block_comment(lex_advance(lx))

RECURSIVE _skip_ws_and_comments(_)
skip_closed(lx) ==
  IF lex_peek(lx, 0) = NUL THEN lx
  ELSE _skip_ws_and_comments(lex_advance(lex_advance(lx)))

_skip_ws_and_comments(lx) ==
  IF lex_peek(lx, 0) \in {" ", "\t", "\r", "\n"}
  THEN _skip_ws_and_comments(lex_advance(lx))
  ELSE IF lex_peek(lx, 0) = "/" /\ lex_peek(lx, 1) = "/"
  THEN _skip_ws_and_comments(skip_line_comment(lx))
  ELSE IF lex_peek(lx, 0) = "/" /\ lex_peek(lx, 1) = "*"
  THEN skip_closed(skip_block_comment(lex_advance(lex_advance(lx))))
  ELSE lx

\* while self._peek().isalnum() or self._peek() == '_': lex.append(self._advance())
RECURSIVE scan_word(_)
scan_word(lx) ==
  IF isalnum(lex_peek(lx, 0)) \/ lex_peek(lx, 0) = "_" THEN scan_word(lex_advance(lx))
  ELSE lx

\* while self._peek().isdigit(): lex.append(self._advance())
RECURSIVE scan_digits(_)
scan_digits(lx) ==
  IF isdigit(lex_peek(lx, 0)) THEN scan_digits(lex_advance(lx)) ELSE lx

\* the characters consumed from the lexer at `from` to the lexer at `to`
Consumed(from, to) == SubSeq(from.src, from.pos + 1, to.pos)

\* KEYWORDS.get(lexeme, TokenType.IDENT)
KeywordType(lexeme) ==
  IF \E w \in KEYWORDS : Spell(w[1]) = lexeme
  THEN (CHOOSE w \in KEYWORDS : Spell(w[1]) = lexeme)[2]
  ELSE "IDENT"

emit_token(start, end, type) ==
  [end EXCEPT !.out = Append(@, Token(type, Consumed(start, end), start.line, start.col))]

word_token(start, end) == emit_token(start, end, KeywordType(Consumed(start, end)))

number_token(start, digits) ==
  IF lex_peek(digits, 0) = "." /\ isdigit(lex_peek(digits, 1))
  THEN emit_token(start, scan_digits(lex_advance(digits)), "FLOAT_LIT")
  ELSE emit_token(start, digits, "INT_LIT")

TwoCharOperators == {"<=", ">=", "==", "!=", "&&", "||"}
IsOperator(lexeme, among) == \E w \in single_map : w[1] \in among /\ Spell(w[1]) = lexeme
OperatorType(lexeme) == (CHOOSE w \in single_map : Spell(w[1]) = lexeme)[2]

\* what one iteration of the loop of tokenize does once the blanks and the
\* comments are skipped and start stands at the character ch
scan_token(start) ==
  LET ch == lex_peek(start, 0)
      two == <<ch, lex_peek(start, 1)>>
  IN  IF ch = NUL
      THEN [start EXCEPT !.out = Append(@, Token("EOF", <<>>, start.line, start.col)),
                         !.returned = TRUE]
      ELSE IF isalpha(ch) \/ ch = "_" THEN word_token(start, scan_word(start))
      ELSE IF isdigit(ch) THEN number_token(start, scan_digits(start))
      ELSE IF IsOperator(two, TwoCharOperators)
      THEN emit_token(start, lex_advance(lex_advance(start)), OperatorType(two))
      ELSE IF IsOperator(<<ch>>, Words \ TwoCharOperators)
      THEN emit_token(start, lex_advance(start), OperatorType(<<ch>>))
      ELSE lex_advance(start)

\* one iteration of `while True:` in Lexer.tokenize
tokenize_step(lx) == scan_token(_skip_ws_and_comments(lx))

(***************************************************************************)
(* Parser (pipeline/parser.py).  The parser object is the record            *)
(* [tokens, current, errors]; every method takes it and returns it, a       *)
(* method that also returns a node returns PR(node, parser).  stops lists   *)
(* the positions at which _synchronize returned, and stalled tells that a   *)
(* loop iteration or an error path left current where it was before EOF.    *)
(***************************************************************************)
ParseError(message, line, col) == [message |-> message, line |-> line, col |-> col]

Parser(tokens) ==
  [tokens |-> tokens, current |-> 0, errors |-> <<>>, stops |-> <<>>, stalled |-> FALSE]

PR(node, p) == [node |-> node, p |-> p]

_peek(p) == p.tokens[p.current + 1]
\* tokens[current - 1]; at current = 0 Python's index -1 is the last token
_previous(p) == p.tokens[IF p.current = 0 THEN Len(p.tokens) ELSE p.current]
_at_end(p) == _peek(p).type = "EOF"
\* the token _advance returns is _previous of the parser it returns
_advance(p) == IF ~_at_end(p) THEN [p EXCEPT !.current = @ + 1] ELSE p
_check(p, types) == ~_at_end(p) /\ _peek(p).type \in types

SyncStarts ==
  {"KW_IF", "KW_WHILE", "KW_FOR", "KW_RETURN", "KW_INT", "KW_FLOAT", "KW_BOOL", "KW_VOID"}

RECURSIVE sync_loop(_)
sync_loop(p) ==
  IF _at_end(p) THEN p
  ELSE IF _previous(p).type = "SEMI" THEN p
  ELSE IF _peek(p).type \in SyncStarts THEN p
  ELSE IF _peek(p).type = "RBRACE" THEN p
  ELSE sync_loop(_advance(p))

\* _synchronize without its first _advance
_synchronize_in_place(p) == sync_loop(p)
_synchronize(p) == sync_loop(_advance(p))

\* p went through a loop iteration or an error path that began at parser p0
Progress(p0, p) ==
  IF p.current = p0.current /\ ~_at_end(p0) THEN [p EXCEPT !.stalled = TRUE] ELSE p

_error(p, token, message) ==
  LET stopped(q) == Progress(p, [q EXCEPT !.stops = Append(@, q.current)])
  IN  stopped(_synchronize(
        [p EXCEPT !.errors = Append(@, ParseError(message, token.line, token.col))]))

\* _consume followed by nothing: after the error it advances once more
_consume(p, ttype, msg) ==
  IF _check(p, {ttype}) THEN _advance(p)
  ELSE _advance(_error(p, _peek(p), msg))

RECURSIVE declaration(_)
RECURSIVE statement(_)
RECURSIVE block_loop(_, _)
RECURSIVE block(_)
RECURSIVE expression(_)
RECURSIVE assignment(_)
RECURSIVE unary(_)
RECURSIVE args_loop(_, _)

RECURSIVE param_loop(_, _)
param_loop(p, params) ==
  IF ~_check(p, {"KW_INT", "KW_FLOAT", "KW_BOOL"})
  THEN PR(params, _error(p, _peek(p), "Expected parameter type (int|float|bool)"))
  ELSE LET named(q) ==
             IF _check(q, {"COMMA"})
             THEN param_loop(_advance(q),
                    Append(params, Param(Text(_peek(p).lexeme), _previous(q).lexeme)))
             ELSE PR(Append(params, Param(Text(_peek(p).lexeme), _previous(q).lexeme)), q)
       IN  named(_consume(_advance(p), "IDENT", "Expected parameter name"))

param_list(p) == IF _check(p, {"RPAREN"}) THEN PR(<<>>, p) ELSE param_loop(p, <<>>)

primary(p) ==
  CASE _check(p, {"INT_LIT"}) ->
         PR(Literal(Num(DigitsVal(_peek(p).lexeme)), "int"), _advance(p))
    [] _check(p, {"FLOAT_LIT"}) ->
         PR(Literal(ParseFloat(_peek(p).lexeme), "float"), _advance(p))
    [] _check(p, {"BOOL_LIT"}) ->
         PR(Literal(Num(IF Text(_peek(p).lexeme) = "true" THEN 1 ELSE 0), "bool"),
            _advance(p))
    [] _check(p, {"IDENT"}) /\ _check(_advance(p), {"LPAREN"}) ->
         LET called(a) ==
               [node |-> Call(_peek(p).lexeme, a.node),
                p |-> _consume(a.p, "RPAREN", "Expected ')' after arguments")]
             opened(q) == called(IF ~_check(q, {"RPAREN"})
                                 THEN args_loop(q, <<>>) ELSE PR(<<>>, q))
         IN  opened(_advance(_advance(p)))
    [] _check(p, {"IDENT"}) -> PR(Var(_peek(p).lexeme), _advance(p))
    [] _check(p, {"LPAREN"}) ->
         LET closed(e) ==
               [node |-> Grouping(e.node),
                p |-> _consume(e.p, "RPAREN", "Expected ')' after expression")]
         IN  closed(expression(_advance(p)))
    [] OTHER ->
         PR(Literal(Num(0), "int"),
            _error(p, _peek(p), "Unexpected token: " \o _peek(p).type))

args_loop(p, args) ==
  LET got(e) == IF e.p.tokens[e.p.current + 1].type \in {"COMMA"}
                THEN args_loop(_advance(e.p), Append(args, e.node))
                ELSE PR(Append(args, e.node), e.p)
  IN  got(expression(p))

unary(p) ==
  IF _check(p, {"BANG", "MINUS", "PLUS"})
  THEN LET applied(r) == PR(Unary(Text(_peek(p).lexeme), r.node), r.p)
       IN  applied(unary(_advance(p)))
  ELSE primary(p)

\* the loops `while self._match(types): expr = Binary(expr, op, operand)`; an
\* operator's type is never EOF, so _check is the test on _peek().type
RECURSIVE factor_loop(_)
factor_loop(e) ==
  IF e.p.tokens[e.p.current + 1].type \in {"STAR", "SLASH", "PERCENT"}
  THEN LET joined(r) == factor_loop(PR(Binary(e.node, Text(_peek(e.p).lexeme), r.node), r.p))
       IN  joined(unary(_advance(e.p)))
  ELSE e
factor(p) == factor_loop(unary(p))

\* an additive level that reads the multiplicative operators as its own
RECURSIVE same_level_loop(_)
same_level_loop(e) ==
  IF e.p.tokens[e.p.current + 1].type \in {"PLUS", "MINUS", "STAR", "SLASH", "PERCENT"}
  THEN LET joined(r) ==
             same_level_loop(PR(Binary(e.node, Text(_peek(e.p).lexeme), r.node), r.p))
       IN  joined(unary(_advance(e.p)))
  ELSE e
term_same_level(p) == same_level_loop(unary(p))

RECURSIVE term_loop(_)
term_loop(e) ==
  IF e.p.tokens[e.p.current + 1].type \in {"PLUS", "MINUS"}
  THEN LET joined(r) == term_loop(PR(Binary(e.node, Text(_peek(e.p).lexeme), r.node), r.p))
       IN  joined(factor(_advance(e.p)))
  ELSE e
term(p) == term_loop(factor(p))

RECURSIVE comparison_loop(_)
comparison_loop(e) ==
  IF e.p.tokens[e.p.current + 1].type \in {"LT", "LE", "GT", "GE"}
  THEN LET joined(r) ==
             comparison_loop(PR(Binary(e.node, Text(_peek(e.p).lexeme), r.node), r.p))
       IN  joined(term(_advance(e.p)))
  ELSE e
comparison(p) == comparison_loop(term(p))

RECURSIVE equality_loop(_)
equality_loop(e) ==
  IF e.p.tokens[e.p.current + 1].type \in {"EQ", "NE"}
  THEN LET joined(r) ==
             equality_loop(PR(Binary(e.node, Text(_peek(e.p).lexeme), r.node), r.p))
       IN  joined(comparison(_advance(e.p)))
  ELSE e
equality(p) == equality_loop(comparison(p))

RECURSIVE logic_and_loop(_)
logic_and_loop(e) ==
  IF e.p.tokens[e.p.current + 1].type \in {"AND"}
  THEN LET joined(r) == logic_and_loop(PR(Binary(e.node, "&&", r.node), r.p))
       IN  joined(equality(_advance(e.p)))
  ELSE e
logic_and(p) == logic_and_loop(equality(p))

RECURSIVE logic_or_loop(_)
logic_or_loop(e) ==
  IF e.p.tokens[e.p.current + 1].type \in {"OR"}
  THEN LET joined(r) == logic_or_loop(PR(Binary(e.node, "||", r.node), r.p))
       IN  joined(logic_and(_advance(e.p)))
  ELSE e
logic_or(p) == logic_or_loop(logic_and(p))

assignment(p) ==
  LET target(e) ==
        IF e.p.tokens[e.p.current + 1].type \in {"ASSIGN"}
        THEN LET valued(v) ==
                   IF e.node.k = "Var" THEN PR(Assign(e.node.name, v.node), v.p)
                   ELSE PR(e.node, _error(v.p, _peek(e.p), "Invalid assignment target"))
             IN  valued(assignment(_advance(e.p)))
        ELSE e
  IN  target(logic_or(p))

expression(p) == assignment(p)

expr_stmt(p) ==
  LET ended(e) == [node |-> ExprStmt(e.node),
                   p |-> _consume(e.p, "SEMI", "Expected ';' after expression")]
  IN  ended(expression(p))

expr_stmt_no_semi(p) ==
  LET ended(e) == PR(ExprStmt(e.node), e.p)
  IN  ended(expression(p))

return_stmt(p) ==
  LET ended(e) == [node |-> Return(e.node),
                   p |-> _consume(e.p, "SEMI", "Expected ';' after return")]
  IN  ended(IF _check(p, {"SEMI"}) THEN PR(NoNode, p) ELSE expression(p))

print_stmt(p) ==
  LET ended(e) ==
        [node |-> PrintStmt(e.node),
         p |-> _consume(_consume(e.p, "RPAREN", "Expected ')' after expression"),
                        "SEMI", "Expected ';' after print(...) expression")]
  IN  ended(expression(_consume(p, "LPAREN", "Expected '(' after 'print'")))

\* if_stmt from the else branch back to the condition
if_done(c, t, e) == [node |-> If(c.node, t.node, e.node), p |-> e.p]
if_then(c, t) ==
  if_done(c, t, IF _check(t.p, {"KW_ELSE"}) THEN statement(_advance(t.p))
                ELSE PR(NoNode, t.p))
if_cond(c) ==
  if_then(c, statement(_consume(c.p, "RPAREN", "Expected ')' after condition")))
if_stmt(p) == if_cond(expression(_consume(p, "LPAREN", "Expected '(' after 'if'")))

\* while_stmt from the body back to the condition
while_done(c, b) == [node |-> While(c.node, b.node), p |-> b.p]
while_cond(c) ==
  while_done(c, statement(_consume(c.p, "RPAREN", "Expected ')' after condition")))
while_stmt(p) == while_cond(expression(_consume(p, "LPAREN", "Expected '(' after 'while'")))

\* p stands after the type keyword type_tok
vardecl_after_type(p, type_tok) ==
  LET done(q, init) ==
        PR(VarDecl(Text(type_tok.lexeme), _previous(q).lexeme, init.node),
           _consume(init.p, "SEMI", "Expected ';' after declaration"))
      named(q) ==
        done(q, IF _check(q, {"ASSIGN"}) THEN expression(_advance(q)) ELSE PR(NoNode, q))
  IN  named(_consume(p, "IDENT", "Expected variable name"))

\* for_stmt from the body back to the initializer
for_done(i, c, po, b) == [node |-> For(i.node, c.node, po.node, b.node), p |-> b.p]
for_post(i, c, po) ==
  for_done(i, c, po, statement(_consume(po.p, "RPAREN", "Expected ')' after for clauses")))
for_semi(i, c, q) ==
  for_post(i, c, IF ~_check(q, {"RPAREN"}) THEN expr_stmt_no_semi(q) ELSE PR(NoNode, q))
for_cond(i, c) ==
  for_semi(i, c, _consume(c.p, "SEMI", "Expected ';' after loop condition"))
for_init(i) ==
  for_cond(i, IF ~_check(i.p, {"SEMI"}) THEN expression(i.p) ELSE PR(NoNode, i.p))
for_opened(q) ==
  for_init(IF _check(q, {"SEMI"}) THEN PR(NoNode, _advance(q))
           ELSE IF _check(q, {"KW_INT", "KW_FLOAT", "KW_BOOL"})
           THEN vardecl_after_type(_advance(q), _peek(q))
           ELSE expr_stmt(q))
for_stmt(p) == for_opened(_consume(p, "LPAREN", "Expected '(' after 'for'"))

statement(p) ==
  CASE _check(p, {"KW_FOR"}) -> for_stmt(_advance(p))
    [] _check(p, {"KW_WHILE"}) -> while_stmt(_advance(p))
    [] _check(p, {"KW_IF"}) -> if_stmt(_advance(p))
    [] _check(p, {"KW_PRINT"}) -> print_stmt(_advance(p))
    [] _check(p, {"KW_RETURN"}) -> return_stmt(_advance(p))
    [] _check(p, {"LBRACE"}) -> block(p)
    [] OTHER -> expr_stmt(p)

\* while not _check(RBRACE) and not _at_end(): statements.append(declaration())
block_loop(p, statements) ==
  IF _check(p, {"RBRACE"}) \/ _at_end(p) THEN PR(statements, p)
  ELSE LET appended(d) ==
             IF d.p.current = p.current
             THEN PR(Append(statements, d.node), Progress(p, d.p))
             ELSE block_loop(d.p, Append(statements, d.node))
       IN  appended(declaration(p))

block(p) ==
  LET closed(b) == [node |-> Block(b.node),
                    p |-> _consume(b.p, "RBRACE", "Expected '}' after block")]
  IN  closed(block_loop(IF _check(p, {"LBRACE"}) THEN _advance(p) ELSE p, <<>>))

\* the function path of declaration; p stands after the '('
function_decl(p, type_tok, name_tok) ==
  LET done(ps, b) ==
        [node |-> FunctionDecl(Text(type_tok.lexeme), name_tok.lexeme, ps.node, b.node),
         p |-> b.p]
      with_params(ps) ==
        done(ps, block(_consume(_consume(ps.p, "RPAREN", "Expected ')' after parameters"),
                                "LBRACE", "Expected '{' before function body")))
  IN  with_params(param_list(p))

\* the variable path of declaration; p stands after the name
variable_decl(p, type_tok, name_tok) ==
  LET done(init) ==
        PR(VarDecl(Text(type_tok.lexeme), name_tok.lexeme, init.node),
           _consume(init.p, "SEMI", "Expected ';' after declaration"))
      checked(q) ==
        done(IF _check(q, {"ASSIGN"}) THEN expression(_advance(q)) ELSE PR(NoNode, q))
  IN  checked(IF type_tok.type = "KW_VOID"
              THEN _error(p, type_tok, "'void' is not allowed for variable declarations")
              ELSE p)

declaration(p) ==
  IF _check(p, {"KW_INT", "KW_FLOAT", "KW_BOOL", "KW_VOID"})
  THEN LET named(q) ==
             IF _check(q, {"LPAREN"}) THEN function_decl(_advance(q), _peek(p), _previous(q))
             ELSE variable_decl(q, _peek(p), _previous(q))
       IN  named(_consume(_advance(p), "IDENT", "Expected identifier after type"))
  ELSE statement(p)

(***************************************************************************)
(* Symbol table (domain/symbol_table.py): a stack of scopes, each a set of  *)
(* symbols; a scope's parent is the scope below it on the stack.            *)
(***************************************************************************)
Symbol(name, type) == [name |-> name, type |-> type]

push_scope(scopes) == Append(scopes, {})
\* a pop that leaves the scope on the stack
pop_scope_keep(scopes) == scopes
pop_scope(scopes) ==
  IF Len(scopes) > 0 THEN SubSeq(scopes, 1, Len(scopes) - 1) ELSE scopes

ScopeHas(scope, name) == \E s \in scope : s.name = name

\* Scope.define on the current scope: the table after it, and whether it succeeded
define_ok(scopes, name) == ~ScopeHas(scopes[Len(scopes)], name)
define(scopes, name, type) ==
  IF define_ok(scopes, name)
  THEN [scopes EXCEPT ![Len(scopes)] = @ \cup {Symbol(name, type)}]
  ELSE scopes

\* Scope.resolve from the current scope up the parent chain: a type, or NoType
RECURSIVE resolve_from(_, _, _)
resolve_from(scopes, i, name) ==
  IF i = 0 THEN NoType
  ELSE IF ScopeHas(scopes[i], name)
       THEN (CHOOSE s \in scopes[i] : s.name = name).type
       ELSE resolve_from(scopes, i - 1, name)
resolve(scopes, name) == resolve_from(scopes, Len(scopes), name)

(***************************************************************************)
(* Semantic analyzer (pipeline/semantics.py).  The analyzer's fields are    *)
(* threaded as a record st; each visit returns the annotated node with it.  *)
(* item is the index of the top-level item visit_program's loop variable s  *)
(* stands at; every diagnostic is recorded with it.                         *)
(***************************************************************************)
NUMERIC == {"int", "float"}
BOOL == "bool"
INT == "int"
FLOAT == "float"
VOID == "void"
ERROR == "error"

FuncSig(name, ret, params) == [name |-> name, ret |-> ret, params |-> params]

SemanticAnalyzer ==
  [scopes |-> <<{}>>, errors |-> <<>>, funcs |-> {}, current_ret |-> NoType, item |-> 0]

err(st, msg, name) ==
  [st EXCEPT !.errors = Append(@, [message |-> msg, name |-> name, item |-> st.item])]

\* assignment between equal types only
assignable_same(to_type, from_type) == to_type = from_type

assignable(to_type, from_type) ==
  IF to_type = from_type THEN TRUE
  ELSE IF to_type = FLOAT /\ from_type = INT THEN TRUE
  ELSE IF to_type = VOID THEN from_type = VOID
  ELSE FALSE

HasFunc(st, name) == \E f \in st.funcs : f.name = name
GetFunc(st, name) == CHOOSE f \in st.funcs : f.name = name

Typed(node, t) == [node EXCEPT !.inferred_type = t]
R(node, t, st) == [node |-> node, t |-> t, st |-> st]

binary_type(op, lt, rt) ==
  IF op \in {"+", "-", "*", "/"}
  THEN IF lt \in NUMERIC /\ rt \in NUMERIC
       THEN (IF FLOAT \in {lt, rt} THEN FLOAT ELSE INT) ELSE ERROR
  ELSE IF op = "%" THEN (IF lt = INT /\ rt = INT THEN INT ELSE ERROR)
  ELSE IF op \in {"<", "<=", ">", ">="}
  THEN (IF lt \in NUMERIC /\ rt \in NUMERIC THEN BOOL ELSE ERROR)
  ELSE IF op \in {"==", "!="} THEN (IF lt = rt /\ lt # ERROR THEN BOOL ELSE ERROR)
  ELSE IF op \in {"&&", "||"} THEN (IF lt = BOOL /\ rt = BOOL THEN BOOL ELSE ERROR)
  ELSE ERROR

unary_type(op, t) ==
  IF op = "!" THEN (IF t = BOOL THEN BOOL ELSE ERROR)
  ELSE IF op \in {"+", "-"} THEN (IF t \in NUMERIC THEN t ELSE ERROR)
  ELSE ERROR

RECURSIVE visit_expr(_, _)
RECURSIVE visit_all_args(_, _, _)
RECURSIVE visit_zip_args(_, _, _, _, _)

\* visit_call, signature unknown: every argument is visited
visit_all_args(args, i, st) ==
  IF i > Len(args) THEN [args |-> args, st |-> st]
  ELSE LET r == visit_expr(args[i], st)
       IN  visit_all_args([args EXCEPT ![i] = r.node], i + 1, r.st)

\* visit_call, signature known: for (pt, _), arg in zip(sig.params, node.args)
visit_zip_args(args, params, i, st, fname) ==
  IF i > Len(args) \/ i > Len(params) THEN [args |-> args, st |-> st]
  ELSE LET r == visit_expr(args[i], st)
           s2 == IF assignable(params[i].type, r.t) THEN r.st
                 ELSE err(r.st, "Argument type incompatible with parameter", fname)
       IN  visit_zip_args([args EXCEPT ![i] = r.node], params, i + 1, s2, fname)

visit_assign(node, st) ==
  LET sym == resolve(st.scopes, node.name)
  IN  IF sym = NoType
      THEN LET s1 == err(st, "Undeclared variable", node.name)
               v == visit_expr(node.value, s1)
           IN  R([node EXCEPT !.inferred_type = ERROR, !.value = v.node], ERROR, v.st)
      ELSE LET v == visit_expr(node.value, st)
               n1 == [node EXCEPT !.value = v.node]
           IN  IF ~assignable(sym, v.t)
               THEN R(Typed(n1, ERROR), ERROR, err(v.st, "Cannot assign", node.name))
               ELSE R(Typed(n1, sym), sym, v.st)

visit_call(node, st) ==
  IF ~HasFunc(st, node.name)
  THEN LET s1 == err(st, "Call to undefined function", node.name)
           a == visit_all_args(node.args, 1, s1)
       IN  R([node EXCEPT !.inferred_type = ERROR, !.args = a.args], ERROR, a.st)
  ELSE LET sig == GetFunc(st, node.name)
           s1 == IF Len(node.args) # Len(sig.params)
                 THEN err(st, "Function expects a different number of args", node.name)
                 ELSE st
           a == visit_zip_args(node.args, sig.params, 1, s1, node.name)
       IN  R([node EXCEPT !.inferred_type = sig.ret, !.args = a.args], sig.ret, a.st)

visit_literal(node, st) == R(Typed(node, node.kind), node.kind, st)

visit_var(node, st) ==
  LET sym == resolve(st.scopes, node.name)
  IN  IF sym = NoType
      THEN R(Typed(node, ERROR), ERROR, err(st, "Undeclared variable", node.name))
      ELSE R(Typed(node, sym), sym, st)

visit_unary(node, st) ==
  LET r == visit_expr(node.right, st)
      t == unary_type(node.op, r.t)
      n1 == [node EXCEPT !.right = r.node, !.inferred_type = t]
  IN  IF t = ERROR /\ node.op \in {"!", "+", "-"}
      THEN R(n1, t, err(r.st, "Unary operator operand type", None))
      ELSE R(n1, t, r.st)

visit_binary(node, st) ==
  LET l == visit_expr(node.left, st)
      r == visit_expr(node.right, l.st)
      t == binary_type(node.op, l.t, r.t)
      n1 == [node EXCEPT !.left = l.node, !.right = r.node, !.inferred_type = t]
  IN  IF t = ERROR THEN R(n1, t, err(r.st, "Binary operator operand types", None))
      ELSE R(n1, t, r.st)

visit_grouping(node, st) ==
  LET r == visit_expr(node.expr, st)
  IN  R([node EXCEPT !.expr = r.node, !.inferred_type = r.t], r.t, r.st)

visit_expr(node, st) ==
  IF node.k = "Assign" THEN visit_assign(node, st)
  ELSE IF node.k = "Call" THEN visit_call(node, st)
  ELSE IF node.k = "Literal" THEN visit_literal(node, st)
  ELSE IF node.k = "Var" THEN visit_var(node, st)
  ELSE IF node.k = "Unary" THEN visit_unary(node, st)
  ELSE IF node.k = "Binary" THEN visit_binary(node, st)
  ELSE visit_grouping(node, st)

RS(node, st) == [node |-> node, st |-> st]

RECURSIVE visit_stmt(_, _)
RECURSIVE visit_block_stmts(_, _, _)

\* the loop of visit_block: a nested FunctionDecl is reported and not visited
visit_block_stmts(stmts, i, st) ==
  IF i > Len(stmts) THEN [stmts |-> stmts, st |-> st]
  ELSE IF stmts[i].k = "FunctionDecl"
       THEN visit_block_stmts(stmts, i + 1,
                              err(st, "Nested function declarations not allowed", None))
       ELSE LET rest(r) == visit_block_stmts([stmts EXCEPT ![i] = r.node], i + 1, r.st)
            IN  rest(visit_stmt(stmts[i], st))

visit_block(node, st) ==
  LET done(r) == RS([node EXCEPT !.statements = r.stmts],
                    [r.st EXCEPT !.scopes = pop_scope(@)])
  IN  done(visit_block_stmts(node.statements, 1, [st EXCEPT !.scopes = push_scope(@)]))

RECURSIVE define_params(_, _, _)
define_params(params, i, st) ==
  IF i > Len(params) THEN st
  ELSE define_params(params, i + 1,
         IF define_ok(st.scopes, params[i].name)
         THEN [st EXCEPT !.scopes = define(@, params[i].name, params[i].type)]
         ELSE err(st, "Parameter redeclared", params[i].name))

visit_function(node, st) ==
  LET saved_ret == st.current_ret
      s1 == [st EXCEPT !.current_ret = node.return_type, !.scopes = push_scope(@)]
      done(b) == RS([node EXCEPT !.body = b.node],
                    [b.st EXCEPT !.scopes = pop_scope(@), !.current_ret = saved_ret])
  IN  done(visit_block(node.body, define_params(node.params, 1, s1)))

visit_vardecl(node, st) ==
  LET s1 == IF define_ok(st.scopes, node.name)
            THEN [st EXCEPT !.scopes = define(@, node.name, node.var_type)]
            ELSE err(st, "Redeclaration", node.name)
      done(r) == RS([node EXCEPT !.init = r.node],
                    IF assignable(node.var_type, r.t) THEN r.st
                    ELSE err(r.st, "Cannot assign in declaration", node.name))
  IN  IF node.init # NoNode THEN done(visit_expr(node.init, s1)) ELSE RS(node, s1)

visit_if(node, st) ==
  LET done(c, t, e) ==
        RS([node EXCEPT !.cond = c.node, !.then_branch = t.node, !.else_branch = e.node],
           e.st)
      with_then(c, t) ==
        done(c, t, IF node.else_branch # NoNode THEN visit_stmt(node.else_branch, t.st)
                   ELSE RS(NoNode, t.st))
      with_cond(c) ==
        with_then(c, visit_stmt(node.then_branch,
                                IF c.t # BOOL
                                THEN err(c.st, "if condition must be bool", None)
                                ELSE c.st))
  IN  with_cond(visit_expr(node.cond, st))

visit_while(node, st) ==
  LET done(c, b) == RS([node EXCEPT !.cond = c.node, !.body = b.node], b.st)
      with_cond(c) ==
        done(c, visit_stmt(node.body,
                           IF c.t # BOOL
                           THEN err(c.st, "while condition must be bool", None)
                           ELSE c.st))
  IN  with_cond(visit_expr(node.cond, st))

visit_for(node, st) ==
  LET s0 == [st EXCEPT !.scopes = push_scope(@)]
      done(i, c, p, b) ==
        RS([node EXCEPT !.init = i.node, !.cond = c.node, !.post = p.node,
                        !.body = b.node],
           [b.st EXCEPT !.scopes = pop_scope(@)])
      with_post(i, c, p) == done(i, c, p, visit_stmt(node.body, p.st))
      with_cond(i, c) ==
        LET s1 == IF node.cond # NoNode /\ c.t # BOOL
                  THEN err(c.st, "for condition must be bool", None) ELSE c.st
        IN  with_post(i, c, IF node.post # NoNode THEN visit_stmt(node.post, s1)
                            ELSE RS(NoNode, s1))
      with_init(i) ==
        with_cond(i, IF node.cond # NoNode THEN visit_expr(node.cond, i.st)
                     ELSE R(NoNode, BOOL, i.st))
  IN  with_init(IF node.init # NoNode THEN visit_stmt(node.init, s0) ELSE RS(NoNode, s0))

visit_print(node, st) ==
  LET r == visit_expr(node.expr, st) IN RS([node EXCEPT !.expr = r.node], r.st)

visit_return(node, st) ==
  IF st.current_ret = NoType
  THEN IF node.expr # NoNode
       THEN LET r == visit_expr(node.expr, st) IN RS([node EXCEPT !.expr = r.node], r.st)
       ELSE RS(node, st)
  ELSE IF node.expr = NoNode
       THEN RS(node, IF st.current_ret # VOID
                     THEN err(st, "Return value required", None) ELSE st)
       ELSE LET r == visit_expr(node.expr, st)
            IN  RS([node EXCEPT !.expr = r.node],
                   IF ~assignable(st.current_ret, r.t)
                   THEN err(r.st, "Cannot return this type", None) ELSE r.st)

visit_exprstmt(node, st) ==
  LET r == visit_expr(node.expr, st) IN RS([node EXCEPT !.expr = r.node], r.st)

visit_stmt(node, st) ==
  IF node.k = "Block" THEN visit_block(node, st)
  ELSE IF node.k = "VarDecl" THEN visit_vardecl(node, st)
  ELSE IF node.k = "If" THEN visit_if(node, st)
  ELSE IF node.k = "While" THEN visit_while(node, st)
  ELSE IF node.k = "For" THEN visit_for(node, st)
  ELSE IF node.k = "Print" THEN visit_print(node, st)
  ELSE IF node.k = "Return" THEN visit_return(node, st)
  ELSE IF node.k = "ExprStmt" THEN visit_exprstmt(node, st)
  ELSE RS(node, st)

\* a first loop that collects nothing
collect_funcs_none(body, i, st) == st

\* visit_program, first loop: collect the signatures, the first of a name wins
RECURSIVE collect_funcs(_, _, _)
collect_funcs(body, i, st) ==
  IF i > Len(body) THEN st
  ELSE collect_funcs(body, i + 1,
         IF body[i].k = "FunctionDecl"
         THEN IF HasFunc(st, body[i].name)
              THEN err([st EXCEPT !.item = i], "Redeclaration of function", body[i].name)
              ELSE [st EXCEPT !.funcs =
                      @ \cup {FuncSig(body[i].name, body[i].return_type, body[i].params)}]
         ELSE st)

\* visit_program, second loop
RECURSIVE visit_top(_, _, _)
visit_top(body, i, st) ==
  IF i > Len(body) THEN [body |-> body, st |-> st]
  ELSE LET rest(r) == visit_top([body EXCEPT ![i] = r.node], i + 1, r.st)
       IN  rest(IF body[i].k = "FunctionDecl"
                THEN visit_function(body[i], [st EXCEPT !.item = i])
                ELSE visit_stmt(body[i], [st EXCEPT !.item = i]))

visit_program(node, st) ==
  LET done(r) == RS([node EXCEPT !.body = r.body], r.st)
  IN  done(visit_top(node.body, 1, collect_funcs(node.body, 1, st)))

analyze(ast_root) ==
  LET result(r) == [typed_root |-> r.node, errors |-> r.st.errors,
                    symbol_table |-> r.st.scopes, func_table |-> r.st.funcs]
  IN  result(visit_program(ast_root, SemanticAnalyzer))

(***************************************************************************)
(* The inferred_type slots of all expression nodes reachable in a tree.     *)
(***************************************************************************)
RECURSIVE inferred_slots(_)
RECURSIVE inferred_slots_seq(_, _)

inferred_slots_seq(nodes, i) ==
  IF i > Len(nodes) THEN {}
  ELSE inferred_slots(nodes[i]) \cup inferred_slots_seq(nodes, i + 1)

inferred_slots(node) ==
  LET own == IF node.k \in ExprKinds THEN {node.inferred_type} ELSE {}
      opt(n) == IF n # NoNode THEN inferred_slots(n) ELSE {}
  IN  own \cup
      (CASE node.k = "Program" -> inferred_slots_seq(node.body, 1)
         [] node.k = "FunctionDecl" -> inferred_slots(node.body)
         [] node.k = "Block" -> inferred_slots_seq(node.statements, 1)
         [] node.k = "VarDecl" -> opt(node.init)
         [] node.k = "If" -> inferred_slots(node.cond) \cup inferred_slots(node.then_branch)
                               \cup opt(node.else_branch)
         [] node.k = "While" -> inferred_slots(node.cond) \cup inferred_slots(node.body)
         [] node.k = "For" -> opt(node.init) \cup opt(node.cond) \cup opt(node.post)
                                \cup inferred_slots(node.body)
         [] node.k = "Print" -> inferred_slots(node.expr)
         [] node.k = "Return" -> opt(node.expr)
         [] node.k = "ExprStmt" -> inferred_slots(node.expr)
         [] node.k = "Assign" -> inferred_slots(node.value)
         [] node.k = "Call" -> inferred_slots_seq(node.args, 1)
         [] node.k = "Unary" -> inferred_slots(node.right)
         [] node.k = "Binary" -> inferred_slots(node.left) \cup inferred_slots(node.right)
         [] node.k = "Grouping" -> inferred_slots(node.expr)
         [] OTHER -> {})

(***************************************************************************)
(* IR instructions and the IR builder (pipeline/ir.py).                     *)
(***************************************************************************)
Label(name) == [k |-> "Label", name |-> name]
Goto(label) == [k |-> "Goto", label |-> label]
IfFalse(cond, label) == [k |-> "IfFalse", cond |-> cond, label |-> label]
AssignInstr(dst, src) == [k |-> "Assign", dst |-> dst, src |-> src]
BinOp(dst, op, left, right) ==
  [k |-> "Bin", dst |-> dst, op |-> op, left |-> left, right |-> right]
UnaryOp(dst, op, operand) == [k |-> "Unary", dst |-> dst, op |-> op, operand |-> operand]
PrintInstr(value) == [k |-> "Print", value |-> value]
ReturnInstr(value) == [k |-> "Return", value |-> value]
FuncStart(name, params) == [k |-> "FuncStart", name |-> name, params |-> params]
FuncEnd(name) == [k |-> "FuncEnd", name |-> name]
CallInstr(dst, name, args) == [k |-> "Call", dst |-> dst, name |-> name, args |-> args]

IRBuilder == [code |-> <<>>, temp_counter |-> 0, label_counter |-> 0]

emit(b, i) == [b EXCEPT !.code = Append(@, i)]

\* new_temp / new_label: the builder after the call; the name is read off it
new_temp(b) == [b EXCEPT !.temp_counter = @ + 1]
temp_name(b) == <<"t">> \o Digits(b.temp_counter)
\* a builder whose label counter is never advanced
new_label_stuck(b) == b
new_label(b) == [b EXCEPT !.label_counter = @ + 1]
label_name(b, base) == base \o Digits(b.label_counter)

\* str(e.value) of a non-bool literal
literal_text(e) == IF e.kind = "int" THEN IntText(PyInt(e.value)) ELSE FloatText(e.value)

GE(op, b) == [op |-> op, b |-> b]

RECURSIVE gen_expr(_, _)
RECURSIVE gen_args(_, _, _, _)

\* [self.gen_expr(a) for a in e.args]
gen_args(args, i, acc, b) ==
  IF i > Len(args) THEN [ops |-> acc, b |-> b]
  ELSE LET r == gen_expr(b, args[i])
       IN  gen_args(args, i + 1, Append(acc, r.op), r.b)

\* a lowering of Call that emits the call ahead of its arguments' code
gen_call_first(b, e) ==
  LET b1 == IF e.inferred_type = "void" THEN b ELSE new_temp(b)
      dst == IF e.inferred_type = "void" THEN None ELSE temp_name(b1)
      a == gen_args(e.args, 1, <<>>, b1)
      arg_code == SubSeq(a.b.code, Len(b1.code) + 1, Len(a.b.code))
  IN  GE(IF dst = None THEN <<"0">> ELSE dst,
         [a.b EXCEPT !.code = b1.code \o <<CallInstr(dst, e.name, a.ops)>> \o arg_code])

\* the Call case of gen_expr: the arguments' code, then the call
gen_call(b, e) ==
  LET b1 == IF e.inferred_type = "void" THEN b ELSE new_temp(b)
      dst == IF e.inferred_type = "void" THEN None ELSE temp_name(b1)
      a == gen_args(e.args, 1, <<>>, b1)
  IN  GE(IF dst = None THEN <<"0">> ELSE dst,
         emit(a.b, CallInstr(dst, e.name, a.ops)))

gen_expr(b, e) ==
  CASE e.k = "Literal" ->
         IF e.kind = "bool" THEN GE(IF ~IsZero(e.value) THEN <<"1">> ELSE <<"0">>, b)
         ELSE GE(literal_text(e), b)
    [] e.k = "Var" -> GE(e.name, b)
    [] e.k = "Assign" ->
         LET rhs == gen_expr(b, e.value)
         IN  GE(e.name, emit(rhs.b, AssignInstr(e.name, rhs.op)))
    [] e.k = "Unary" ->
         LET b1 == new_temp(b)
             t == temp_name(b1)
             r == gen_expr(b1, e.right)
         IN  GE(t, emit(r.b, UnaryOp(t, e.op, r.op)))
    [] e.k = "Binary" ->
         LET b1 == new_temp(b)
             t == temp_name(b1)
             l == gen_expr(b1, e.left)
             r == gen_expr(l.b, e.right)
         IN  GE(t, emit(r.b, BinOp(t, e.op, l.op, r.op)))
    [] e.k = "Grouping" -> gen_expr(b, e.expr)
    [] e.k = "Call" -> gen_call(b, e)
    [] OTHER ->
         LET b1 == new_temp(b)
         IN  GE(temp_name(b1), emit(b1, AssignInstr(temp_name(b1), <<"0">>)))

param_names(params) == [i \in 1..Len(params) |-> params[i].name]

RECURSIVE gen_stmt(_, _)

\* for st in s.statements: self.gen_stmt(st); return
\* the return is part of the loop body: the loop ends after its first pass
gen_block(b, s) ==
  IF Len(s.statements) > 0 THEN gen_stmt(b, s.statements[1]) ELSE b

gen_stmt(b, s) ==
  CASE s.k = "Block" -> gen_block(b, s)
    [] s.k = "VarDecl" ->
         IF s.init # NoNode
         THEN LET v == gen_expr(b, s.init) IN emit(v.b, AssignInstr(s.name, v.op))
         ELSE b
    [] s.k = "If" ->
         LET b1 == new_label(b)
             else_lbl == label_name(b1, <<"L", "e", "l", "s", "e">>)
             b2 == new_label(b1)
             end_lbl == label_name(b2, <<"L", "e", "n", "d">>)
             c == gen_expr(b2, s.cond)
             b3 == emit(c.b, IfFalse(c.op, else_lbl))
             b4 == emit(gen_stmt(b3, s.then_branch), Goto(end_lbl))
             b5 == emit(b4, Label(else_lbl))
             b6 == IF s.else_branch # NoNode THEN gen_stmt(b5, s.else_branch) ELSE b5
         IN  emit(b6, Label(end_lbl))
    [] s.k = "While" ->
         LET b1 == new_label(b)
             start == label_name(b1, <<"L", "w", "h", "i", "l", "e">>)
             b2 == new_label(b1)
             end == label_name(b2, <<"L", "w", "e", "n", "d">>)
             b3 == emit(b2, Label(start))
             c == gen_expr(b3, s.cond)
             b4 == emit(c.b, IfFalse(c.op, end))
             b5 == emit(gen_stmt(b4, s.body), Goto(start))
         IN  emit(b5, Label(end))
    [] s.k = "For" ->
         LET b1 == new_label(b)
             start == label_name(b1, <<"L", "f", "o", "r">>)
             b2 == new_label(b1)
             end == label_name(b2, <<"L", "f", "e", "n", "d">>)
             b3 == IF s.init # NoNode THEN gen_stmt(b2, s.init) ELSE b2
             b4 == emit(b3, Label(start))
             b5 == IF s.cond # NoNode
                   THEN LET c == gen_expr(b4, s.cond) IN emit(c.b, IfFalse(c.op, end))
                   ELSE b4
             b6 == gen_stmt(b5, s.body)
             b7 == IF s.post # NoNode THEN gen_stmt(b6, s.post) ELSE b6
         IN  emit(emit(b7, Goto(start)), Label(end))
    [] s.k = "Print" ->
         LET v == gen_expr(b, s.expr) IN emit(v.b, PrintInstr(v.op))
    [] s.k = "Return" ->
         IF s.expr # NoNode
         THEN LET v == gen_expr(b, s.expr) IN emit(v.b, ReturnInstr(v.op))
         ELSE emit(b, ReturnInstr(None))
    [] s.k = "ExprStmt" -> gen_expr(b, s.expr).b
    [] s.k = "FunctionDecl" ->
         LET b1 == emit(b, FuncStart(s.name, param_names(s.params)))
         IN  emit(gen_stmt(b1, s.body), FuncEnd(s.name))
    [] OTHER -> b

RECURSIVE gen_top(_, _, _)
gen_top(b, body, i) ==
  IF i > Len(body) THEN b ELSE gen_top(gen_stmt(b, body[i]), body, i + 1)

ir_gen(typed_root) == gen_top(IRBuilder, typed_root.body, 1).code

(***************************************************************************)
(* IR optimizer (pipeline/optimizer.py).                                    *)
(***************************************************************************)
is_const(x) ==
  IF x = None THEN FALSE
  ELSE IF ParseFloat(x) # None THEN TRUE
  ELSE x \in {<<"0">>, <<"1">>}

const_val(x) == ParseFloat(x)

fmt_num(x) == IF is_integer(x) THEN IntText(PyInt(x)) ELSE FloatText(x)

BoolText(b) == IF b THEN <<"1">> ELSE <<"0">>

\* an evaluator that gives every operation the value of its left operand
eval_bin_left(op, a, b) == a

eval_bin(op, a, b) ==
  LET av == const_val(a)
      bv == const_val(b)
  IN  IF av = None \/ bv = None THEN None
      ELSE CASE op = "+" -> fmt_num(FAdd(av, bv))
             [] op = "-" -> fmt_num(FSub(av, bv))
             [] op = "*" -> fmt_num(FMul(av, bv))
             [] op = "/" -> IF IsZero(bv) THEN None ELSE fmt_num(FDiv(av, bv))
             [] op = "%" -> IF is_integer(av) /\ is_integer(bv) /\ ~IsZero(bv)
                            THEN fmt_num(Num(PyMod(PyInt(av), PyInt(bv))))
                            ELSE None
             [] op = "<" -> BoolText(FLt(av, bv))
             [] op = "<=" -> BoolText(FLe(av, bv))
             [] op = ">" -> BoolText(FLt(bv, av))
             [] op = ">=" -> BoolText(FLe(bv, av))
             [] op = "==" -> BoolText(FEq(av, bv))
             [] op = "!=" -> BoolText(~FEq(av, bv))
             [] op = "&&" -> BoolText(~IsZero(av) /\ ~IsZero(bv))
             [] op = "||" -> BoolText(~IsZero(av) \/ ~IsZero(bv))
             [] OTHER -> None

eval_unary(op, a) ==
  LET av == const_val(a)
  IN  IF av = None THEN None
      ELSE CASE op = "!" -> IF ~IsZero(av) THEN <<"0">> ELSE <<"1">>
             [] op = "+" -> fmt_num(av)
             [] op = "-" -> fmt_num(FNeg(av))
             [] OTHER -> None

IsDigitsFrom(name, i) ==
  /\ Len(name) >= i
  /\ \A j \in i..Len(name) : name[j] \in DigitChars

\* TEMP_RE = ^t\d+$
is_temp(name) == name # None /\ Len(name) >= 2 /\ name[1] = "t" /\ IsDigitsFrom(name, 2)

ConstIs(x, n) == is_const(x) /\ const_val(x) = Num(n)

fold_instr(ins) ==
  IF ins.k = "Bin"
  THEN IF is_const(ins.left) /\ is_const(ins.right)
          /\ eval_bin(ins.op, ins.left, ins.right) # None
       THEN AssignInstr(ins.dst, eval_bin(ins.op, ins.left, ins.right))
       ELSE IF ins.op \in {"+", "-"} /\ ConstIs(ins.right, 0)
       THEN AssignInstr(ins.dst, ins.left)
       ELSE IF ins.op = "*" /\ ConstIs(ins.right, 1) THEN AssignInstr(ins.dst, ins.left)
       ELSE IF ins.op = "/" /\ ConstIs(ins.right, 1) THEN AssignInstr(ins.dst, ins.left)
       ELSE IF ins.op = "*" /\ ConstIs(ins.right, 0) THEN AssignInstr(ins.dst, <<"0">>)
       ELSE IF ins.op = "*" /\ ConstIs(ins.left, 0) THEN AssignInstr(ins.dst, <<"0">>)
       ELSE ins
  ELSE IF ins.k = "Unary"
  THEN IF is_const(ins.operand) /\ eval_unary(ins.op, ins.operand) # None
       THEN AssignInstr(ins.dst, eval_unary(ins.op, ins.operand))
       ELSE ins
  ELSE ins

constant_fold(ir) == [i \in 1..Len(ir) |-> fold_instr(ir[i])]

used_vars(ins) ==
  CASE ins.k = "Bin" -> <<ins.left, ins.right>>
    [] ins.k = "Unary" -> <<ins.operand>>
    [] ins.k = "Assign" -> <<ins.src>>
    [] ins.k = "IfFalse" -> <<ins.cond>>
    [] ins.k = "Print" -> <<ins.value>>
    [] ins.k = "Return" -> IF ins.value # None THEN <<ins.value>> ELSE <<>>
    [] OTHER -> <<>>

defined_var(ins) == IF ins.k \in {"Assign", "Bin", "Unary"} THEN ins.dst ELSE None

has_side_effect(ins) ==
  IF ins.k \in {"Print", "Return", "IfFalse", "Goto", "Label"} THEN TRUE
  ELSE IF ins.k = "Assign" /\ ~is_temp(ins.dst) THEN TRUE
  ELSE FALSE

Range(f) == {f[i] : i \in 1..Len(f)}
LiveUses(ins) == {u \in Range(used_vars(ins)) : ~is_const(u)}

\* the reversed scan of dce from index i down to 1; out is built back to front
RECURSIVE dce_scan(_, _, _, _)
dce_scan(ir, i, live, out) ==
  IF i = 0 THEN out
  ELSE LET ins == ir[i]
           d == defined_var(ins)
       IN  IF has_side_effect(ins) \/ (d # None /\ d \in live) \/ d = None
           THEN dce_scan(ir, i - 1, (live \cup LiveUses(ins)) \ {d}, <<ins>> \o out)
           ELSE dce_scan(ir, i - 1, live \cup LiveUses(ins), out)

dce(ir) == dce_scan(ir, Len(ir), {}, <<>>)

optimize_ir(ir) == dce(constant_fold(ir))

(***************************************************************************)
(* Bytecode and the code generator (pipeline/codegen.py).                   *)
(***************************************************************************)
BLabel(name) == [k |-> "LABEL", name |-> name]
BJmp(label) == [k |-> "JMP", label |-> label]
BIfFalse(cond, label) == [k |-> "IFFALSE", cond |-> cond, label |-> label]
BMov(dst, src) == [k |-> "MOV", dst |-> dst, src |-> src]
BUnary(dst, op, src) == [k |-> "UNARY", dst |-> dst, op |-> op, src |-> src]
BBin(dst, op, left, right) ==
  [k |-> "BIN", dst |-> dst, op |-> op, left |-> left, right |-> right]
BPrint(value) == [k |-> "PRINT", value |-> value]
BRet(value) == [k |-> "RET", value |-> value]
BFunc(name, params) == [k |-> "FUNC", name |-> name, params |-> params]
BEndFunc(name) == [k |-> "ENDFUNC", name |-> name]
BCall(dst, name, args) == [k |-> "CALL", dst |-> dst, name |-> name, args |-> args]

codegen_instr(ins) ==
  CASE ins.k = "Label" -> BLabel(ins.name)
    [] ins.k = "Goto" -> BJmp(ins.label)
    [] ins.k = "IfFalse" -> BIfFalse(ins.cond, ins.label)
    [] ins.k = "Assign" -> BMov(ins.dst, ins.src)
    [] ins.k = "Unary" -> BUnary(ins.dst, ins.op, ins.operand)
    [] ins.k = "Bin" -> BBin(ins.dst, ins.op, ins.left, ins.right)
    [] ins.k = "Print" -> BPrint(ins.value)
    [] ins.k = "Return" -> BRet(ins.value)
    [] ins.k = "FuncStart" -> BFunc(ins.name, ins.params)
    [] ins.k = "FuncEnd" -> BEndFunc(ins.name)
    [] ins.k = "Call" -> BCall(ins.dst, ins.name, ins.args)

codegen(ir) == [i \in 1..Len(ir) |-> codegen_instr(ir[i])]

(***************************************************************************)
(* Peephole (pipeline/peephole.py).                                         *)
(***************************************************************************)
IsSelfMov(ins) == ins.k = "MOV" /\ ins.dst = ins.src

RECURSIVE remove_mov_self_from(_, _)
remove_mov_self_from(code, i) ==
  IF i > Len(code) THEN <<>>
  ELSE (IF IsSelfMov(code[i]) THEN <<>> ELSE <<code[i]>>)
         \o remove_mov_self_from(code, i + 1)

remove_mov_self(code) == remove_mov_self_from(code, 1)

IsJmpToNext(code, i) ==
  /\ code[i].k = "JMP"
  /\ i + 1 <= Len(code)
  /\ code[i + 1].k = "LABEL"
  /\ code[i + 1].name = code[i].label

RECURSIVE remove_jmp_from(_, _)
remove_jmp_from(code, i) ==
  IF i > Len(code) THEN <<>>
  ELSE (IF IsJmpToNext(code, i) THEN <<>> ELSE <<code[i]>>)
         \o remove_jmp_from(code, i + 1)

remove_jmp_to_next_label(code) == remove_jmp_from(code, 1)

\* first loop of collapse_consecutive_labels: out, label_map (a set of
\* <<later, earlier>> pairs; a later entry for a name replaces the earlier)
RECURSIVE collapse_scan(_, _, _, _, _)
collapse_scan(code, i, out, label_map, prev_label) ==
  IF i > Len(code) THEN [out |-> out, label_map |-> label_map]
  ELSE LET ins == code[i]
       IN  IF ins.k = "LABEL"
           THEN IF prev_label = None
                THEN collapse_scan(code, i + 1, Append(out, ins), label_map, ins.name)
                ELSE collapse_scan(code, i + 1, out,
                       {m \in label_map : m[1] # ins.name} \cup {<<ins.name, prev_label>>},
                       prev_label)
           ELSE collapse_scan(code, i + 1, Append(out, ins), label_map, None)

\* while name in label_map: name = label_map[name]
\* (fuel bounds the walk; prev_label is never a key, so chains do not cycle)
RECURSIVE remap(_, _, _)
remap(label_map, name, fuel) ==
  IF fuel > 0 /\ \E m \in label_map : m[1] = name
  THEN remap(label_map, (CHOOSE m \in label_map : m[1] = name)[2], fuel - 1)
  ELSE name

\* a collapse that drops the labels and renames no jump
collapse_without_remap(code) == collapse_scan(code, 1, <<>>, {}, None).out

collapse_consecutive_labels(code) ==
  LET r == collapse_scan(code, 1, <<>>, {}, None)
      rm(n) == remap(r.label_map, n, Cardinality(r.label_map))
  IN  [i \in 1..Len(r.out) |->
         IF r.out[i].k = "JMP" THEN BJmp(rm(r.out[i].label))
         ELSE IF r.out[i].k = "IFFALSE" THEN BIfFalse(r.out[i].cond, rm(r.out[i].label))
         ELSE r.out[i]]

peephole(code) ==
  collapse_consecutive_labels(remove_jmp_to_next_label(remove_mov_self(code)))

(***************************************************************************)
(* VM (pipeline/vm.py).  pc is the Python index (0-based): the instruction  *)
(* at pc is code[pc + 1].  Environments are dict objects shared by          *)
(* reference (self.env is self.global_env at top level, Frame.env is the    *)
(* caller's dict), so they live in a heap envs and are named by index;      *)
(* the global environment is envs[1].                                       *)
(***************************************************************************)
_parse_num(x) == ParseFloat(x)

MapHas(m, key) == \E e \in m : e[1] = key
MapGet(m, key) == (CHOOSE e \in m : e[1] = key)[2]
MapPut(m, key, val) == {e \in m : e[1] # key} \cup {<<key, val>>}

\* _index: labels (name -> index), func_meta (name -> start, end, params)
RECURSIVE index_scan(_, _, _, _, _)
index_scan(code, i, labels, func_meta, func_stack) ==
  IF i > Len(code) THEN [labels |-> labels, func_meta |-> func_meta]
  ELSE LET ins == code[i]
           at == i - 1
       IN  IF ins.k = "LABEL"
           THEN index_scan(code, i + 1, MapPut(labels, ins.name, at), func_meta, func_stack)
           ELSE IF ins.k = "FUNC"
           THEN index_scan(code, i + 1, labels,
                  MapPut(func_meta, ins.name,
                         [start |-> at, end |-> at, params |-> ins.params]),
                  Append(func_stack, ins.name))
           ELSE IF ins.k = "ENDFUNC" /\ Len(func_stack) > 0
           THEN LET name == func_stack[Len(func_stack)]
                IN  index_scan(code, i + 1, labels,
                      MapPut(func_meta, name, [MapGet(func_meta, name) EXCEPT !.end = at]),
                      SubSeq(func_stack, 1, Len(func_stack) - 1))
           ELSE index_scan(code, i + 1, labels, func_meta, func_stack)

_index(code) == index_scan(code, 1, {}, {}, <<>>)

\* call_at and snap are history fields: the index of the CALL and a copy of the
\* caller's environment when the frame was pushed
Frame(env, ret_pc, ret_dst, call_at, snap) ==
  [env |-> env, ret_pc |-> ret_pc, ret_dst |-> ret_dst, call_at |-> call_at,
   snap |-> snap]

VM(code) ==
  [labels |-> _index(code).labels, func_meta |-> _index(code).func_meta,
   pc |-> 0, n |-> Len(code), stack |-> <<>>, envs |-> <<{}>>, env |-> 1,
   output |-> <<>>, status |-> "running"]

global_env == 1

\* a truth test that takes every value for true
_is_true_always(v) == TRUE
_is_true(v) == ~IsZero(v)
_fmt(v) == IF is_integer(v) THEN IntText(PyInt(v)) ELSE FloatText(v)

_get(vm, x) ==
  IF _parse_num(x) # None THEN _parse_num(x)
  ELSE IF MapHas(vm.envs[vm.env], x) THEN MapGet(vm.envs[vm.env], x)
  ELSE IF MapHas(vm.envs[global_env], x) THEN MapGet(vm.envs[global_env], x)
  ELSE Num(0)

\* a write that always goes to the global dict
_set_global(vm, name, val) == [vm EXCEPT !.envs[1] = MapPut(@, name, val)]

_set(vm, name, val) == [vm EXCEPT !.envs[vm.env] = MapPut(@, name, val)]

labels_get(vm, label, default) ==
  IF MapHas(vm.labels, label) THEN MapGet(vm.labels, label) ELSE default

B01(b) == IF b THEN Num(1) ELSE Num(0)

\* the operators for which BBin raises: ZeroDivisionError, or RuntimeError
bin_raises(op, a, b) ==
  \/ op = "/" /\ IsZero(b)
  \/ op = "%" /\ (int_raises(a) \/ int_raises(b) \/ PyInt(b) = 0)
  \/ op \notin {"+", "-", "*", "/", "%", "<", "<=", ">", ">=", "==", "!=", "&&", "||"}

bin_value(op, a, b) ==
  CASE op = "+" -> FAdd(a, b)
    [] op = "-" -> FSub(a, b)
    [] op = "*" -> FMul(a, b)
    [] op = "/" -> FDiv(a, b)
    [] op = "%" -> Num(PyMod(PyInt(a), PyInt(b)))
    [] op = "<" -> B01(FLt(a, b))
    [] op = "<=" -> B01(FLe(a, b))
    [] op = ">" -> B01(FLt(b, a))
    [] op = ">=" -> B01(FLe(b, a))
    [] op = "==" -> B01(FEq(a, b))
    [] op = "!=" -> B01(~FEq(a, b))
    [] op = "&&" -> B01(~IsZero(a) /\ ~IsZero(b))
    [] op = "||" -> B01(~IsZero(a) \/ ~IsZero(b))

unary_value(op, a) ==
  CASE op = "!" -> IF _is_true(a) THEN Num(0) ELSE Num(1)
    [] op = "+" -> a
    [] op = "-" -> FNeg(a)

RECURSIVE bind_params(_, _, _, _)
bind_params(params, arg_vals, i, env) ==
  IF i > Len(params) THEN env
  ELSE bind_params(params, arg_vals, i + 1,
         MapPut(env, params[i], IF i <= Len(arg_vals) THEN arg_vals[i] ELSE Num(0)))

\* a call that binds the parameters in the caller's own dict
new_local_env_shared(vm, params, arg_vals) ==
  [vm EXCEPT !.envs[vm.env] = bind_params(params, arg_vals, 1, @)]

\* self.env = {} and the parameter bindings: a fresh dict on the heap
new_local_env(vm, params, arg_vals) ==
  [vm EXCEPT !.envs = Append(@, bind_params(params, arg_vals, 1, {})),
             !.env = Len(vm.envs) + 1]

\* a pop that leaves the callee's dict the current one
pop_frame_keep_env(vm) == [vm EXCEPT !.stack = SubSeq(@, 1, Len(@) - 1)]

\* frame = self.stack.pop(); self.env = frame.env; the callee's dict, no longer
\* referenced, leaves the heap
pop_frame(vm) ==
  LET frame == vm.stack[Len(vm.stack)]
  IN  [vm EXCEPT !.stack = SubSeq(@, 1, Len(@) - 1),
                 !.env = frame.env,
                 !.envs = SubSeq(@, 1, frame.env)]

step_call(vm, ins) ==
  IF ~MapHas(vm.func_meta, ins.name) THEN vm
  ELSE LET meta == MapGet(vm.func_meta, ins.name)
           arg_vals == [i \in 1..Len(ins.args) |-> _get(vm, ins.args[i])]
           pushed == [vm EXCEPT !.stack =
                        Append(@, Frame(vm.env, vm.pc, ins.dst, vm.pc - 1,
                                        vm.envs[vm.env]))]
       IN  [new_local_env(pushed, meta.params, arg_vals) EXCEPT !.pc = meta.start + 1]

\* a RET that carries on at the next instruction
step_ret_on(vm, ins) == vm

step_ret(vm, ins) ==
  IF Len(vm.stack) = 0 THEN [vm EXCEPT !.pc = vm.n, !.status = "halted"]
  ELSE LET frame == vm.stack[Len(vm.stack)]
           ret_val == IF ins.value # None THEN _get(vm, ins.value) ELSE Num(0)
           back == pop_frame(vm)
           wrote == IF frame.ret_dst # None THEN _set(back, frame.ret_dst, ret_val)
                    ELSE back
       IN  [wrote EXCEPT !.pc = frame.ret_pc]

step_endfunc(vm) ==
  IF Len(vm.stack) > 0
  THEN LET frame == vm.stack[Len(vm.stack)]
           back == pop_frame(vm)
           wrote == IF frame.ret_dst # None THEN _set(back, frame.ret_dst, Num(0))
                    ELSE back
       IN  [wrote EXCEPT !.pc = frame.ret_pc]
  ELSE vm

\* VM.step on a running machine (vm0); status "halted" is step returning False,
\* status "raised" an exception leaving step
step(code, vm0) ==
  IF vm0.pc >= vm0.n THEN [vm0 EXCEPT !.status = "halted"]
  ELSE
  LET ins == code[vm0.pc + 1]
      vm == [vm0 EXCEPT !.pc = @ + 1]
  IN  CASE ins.k = "FUNC" ->
             IF Len(vm.stack) = 0
             THEN [vm EXCEPT !.pc =
                     (IF MapHas(vm.func_meta, ins.name)
                      THEN MapGet(vm.func_meta, ins.name).end ELSE vm.pc - 1) + 1]
             ELSE vm
        [] ins.k = "ENDFUNC" -> step_endfunc(vm)
        [] ins.k = "LABEL" -> vm
        [] ins.k = "JMP" -> [vm EXCEPT !.pc = labels_get(vm, ins.label, vm.pc)]
        [] ins.k = "IFFALSE" ->
             IF ~_is_true(_get(vm, ins.cond))
             THEN [vm EXCEPT !.pc = labels_get(vm, ins.label, vm.pc)]
             ELSE vm
        [] ins.k = "MOV" -> _set(vm, ins.dst, _get(vm, ins.src))
        [] ins.k = "UNARY" ->
             IF ins.op \in {"!", "+", "-"}
             THEN _set(vm, ins.dst, unary_value(ins.op, _get(vm, ins.src)))
             ELSE [vm EXCEPT !.status = "raised"]
        [] ins.k = "BIN" ->
             IF bin_raises(ins.op, _get(vm, ins.left), _get(vm, ins.right))
             THEN [vm EXCEPT !.status = "raised"]
             ELSE _set(vm, ins.dst,
                       bin_value(ins.op, _get(vm, ins.left), _get(vm, ins.right)))
        [] ins.k = "PRINT" ->
             [vm EXCEPT !.output = Append(@, _fmt(_get(vm, ins.value)))]
        [] ins.k = "CALL" -> step_call(vm, ins)
        [] ins.k = "RET" -> step_ret(vm, ins)
        [] OTHER -> vm

\* VM.run, `while self.step(): pass`, cut off after n steps; the machine is
\* left as it is once step has returned False or has raised
RECURSIVE run_steps(_, _, _)
run_steps(code, vm, n) ==
  IF n = 0 \/ vm.status # "running" THEN vm
  ELSE IF n = 1 THEN step(code, vm)
  ELSE run_steps(code, run_steps(code, vm, n \div 2), n - n \div 2)

\* run(bytecode), cut off after n steps
run(code, n) == run_steps(code, VM(code), n)

(***************************************************************************)
(* The programs explored: the trees Parser.parse builds for small sources.  *)
(***************************************************************************)
IntLit(c) == Literal(Num(c), "int")
BoolLit(b) == Literal(Num(IF b THEN 1 ELSE 0), "bool")
\* the parser reads a negative constant as unary minus applied to a literal
IntConst(c) == IF c < 0 THEN Unary("-", IntLit(0 - c)) ELSE IntLit(c)

nx == <<"x">>
ny == <<"y">>
ni == <<"i">>
nn == <<"n">>
nf == <<"f">>
ng == <<"g">>
nt1 == <<"t", "1">>        \* a user identifier spelled like a temporary

Lits == {IntLit(c) : c \in 0..MaxLit}
Atoms == Lits \cup {Var(nx)}
BinOps == {"+", "-", "*", "/", "%", "<", "<=", ">", ">=", "==", "!=", "&&", "||"}

\* int x = c; print(a op b);
\* the divisors explored: zero, and the powers of two, whose quotients a double
\* holds exactly and str prints in full
Divisors == {d \in 0..MaxLit : d \in {0, 1, 2, 4, 8}}
ExprPrograms ==
  {<<VarDecl("int", nx, IntLit(c)), PrintStmt(Binary(a, op, b))>> :
     c \in 0..1, a \in Atoms, b \in Atoms, op \in BinOps \ {"/"}}
  \cup
  {<<VarDecl("int", nx, IntLit(c)), PrintStmt(Binary(a, "/", b))>> :
     c \in 0..1, a \in Atoms, b \in {IntLit(d) : d \in Divisors} \cup {Var(nx)}}

\* int x = c; int y = x op d;        (a declaration fed by an operation)
DeclPrograms ==
  {<<VarDecl("int", nx, IntLit(c)), VarDecl("int", ny, Binary(Var(nx), op, IntLit(d))),
     PrintStmt(Var(ny))>> :
     c \in 0..MaxLit, d \in 0..MaxLit, op \in {"+", "*", "%"}}
  \cup
  {<<VarDecl("int", nx, IntLit(c)), VarDecl("int", ny, Binary(Var(nx), "/", IntLit(d))),
     PrintStmt(Var(ny))>> : c \in 0..MaxLit, d \in Divisors}

\* int x = c; if (x > d) { print(x); } [else { print(d); }]
IfPrograms ==
  {<<VarDecl("int", nx, IntLit(c)),
     If(Binary(Var(nx), ">", IntLit(d)), Block(<<PrintStmt(Var(nx))>>), e)>> :
     c \in 0..MaxLit, d \in 0..MaxLit,
     e \in {NoNode, Block(<<PrintStmt(IntLit(7))>>)}}

Incr(name) == ExprStmt(Assign(name, Binary(Var(name), "+", IntLit(1))))

\* for (int i = a; i <= b; i = i + 1) { print(i); }
ForLoop(a, b) ==
  <<For(VarDecl("int", ni, IntConst(a)), Binary(Var(ni), "<=", IntConst(b)),
        Incr(ni), Block(<<PrintStmt(Var(ni))>>))>>

ForPrograms == {ForLoop(a, b) : a \in (0 - 1)..MaxLit, b \in (0 - 1)..MaxLit}

\* nestings of if / while / for, inside and outside a function
NestPrograms ==
  {<<VarDecl("int", nx, IntLit(c)),
     While(Binary(Var(nx), "<", IntLit(d)),
           If(Binary(Var(nx), "==", IntLit(1)), Incr(nx),
              Block(<<ExprStmt(Assign(nx, Binary(Var(nx), "+", IntLit(2))))>>))),
     PrintStmt(Var(nx))>> : c \in 0..MaxLit, d \in 0..MaxLit}
  \cup
  {<<For(VarDecl("int", ni, IntLit(0)), Binary(Var(ni), "<", IntLit(d)), Incr(ni),
         For(VarDecl("int", nx, IntLit(c)), Binary(Var(nx), "<", IntLit(d)), Incr(nx),
             If(Binary(Var(nx), "<", Var(ni)), PrintStmt(Var(nx)), NoNode)))>> :
     c \in 0..MaxLit, d \in 0..MaxLit}
  \cup
  {<<FunctionDecl("int", nf, <<Param("int", nn)>>,
        Block(<<If(Binary(Var(nn), "<=", IntLit(0)), Return(IntLit(c)),
                   Return(Binary(Call(nf, <<Binary(Var(nn), "-", IntLit(1))>>),
                                 "+", IntLit(1))))>>)),
     If(BoolLit(TRUE), PrintStmt(Call(nf, <<IntLit(d)>>)), NoNode),
     While(BoolLit(FALSE), PrintStmt(IntLit(c))),
     For(NoNode, NoNode, NoNode, Return(NoNode))>> :
     c \in 0..MaxLit, d \in 0..MaxLit}

\* blocks of two or more statements
BlockPrograms ==
  {<<Block(<<PrintStmt(IntLit(c)), PrintStmt(IntLit(d))>>)>> :
     c \in 0..MaxLit, d \in 0..MaxLit}
  \cup
  {<<FunctionDecl("int", nf, <<Param("int", nn)>>,
        Block(<<PrintStmt(Var(nn)), Return(Binary(Var(nn), "+", IntLit(c)))>>)),
     PrintStmt(Call(nf, <<IntLit(d)>>))>> : c \in 0..MaxLit, d \in 0..MaxLit}
  \cup
  {<<VarDecl("int", nx, IntLit(c)),
     While(Binary(Var(nx), "<", IntLit(d)),
           Block(<<PrintStmt(Var(nx)), Incr(nx)>>))>> : c \in 1..MaxLit, d \in 0..1}
  \cup
  {<<If(BoolLit(TRUE), Block(<<PrintStmt(IntLit(c)), PrintStmt(IntLit(d)),
                               PrintStmt(IntLit(c))>>), NoNode)>> :
     c \in 0..MaxLit, d \in 0..MaxLit}

Square == FunctionDecl("int", nf, <<Param("int", nn)>>,
                       Block(<<Return(Binary(Var(nn), "*", Var(nn)))>>))
AddOne == FunctionDecl("int", ng, <<Param("int", nn)>>,
                       Block(<<Return(Binary(Var(nn), "+", IntLit(1)))>>))
\* int f(int n) { return g(n) * 2; }
Twice == FunctionDecl("int", nf, <<Param("int", nn)>>,
                      Block(<<Return(Binary(Call(ng, <<Var(nn)>>), "*", IntLit(2)))>>))
\* int f(int n) { return x = n + 1; }     (the callee assigns a global's name)
Shadow == FunctionDecl("int", nf, <<Param("int", nn)>>,
                       Block(<<Return(Assign(nx, Binary(Var(nn), "+", IntLit(1))))>>))
\* void g(int n) { print(n); return; }
Show == FunctionDecl("void", ng, <<Param("int", nn)>>,
                     Block(<<If(BoolLit(TRUE), PrintStmt(Var(nn)), Return(NoNode))>>))

ArgLists ==
  {<<>>} \cup {<<a>> : a \in Atoms \cup {Binary(Var(nx), "+", IntLit(1))}}
         \cup {<<IntLit(1), Binary(Var(nx), "+", IntLit(c))>> : c \in 0..MaxLit}

\* calls: simple and compound arguments, wrong arity, undefined callee
CallPrograms ==
  {<<Square, VarDecl("int", nx, IntLit(c)), VarDecl("int", ny, Call(h, args)),
     PrintStmt(Var(ny))>> : c \in 1..MaxLit, h \in {nf, ng}, args \in ArgLists}
  \cup
  {<<AddOne, Twice, VarDecl("int", nx, IntLit(c)),
     PrintStmt(Binary(Call(nf, <<Var(nx)>>), "+", Call(ng, <<IntLit(d)>>)))>> :
     c \in 0..MaxLit, d \in 0..MaxLit}
  \cup
  {<<Shadow, VarDecl("int", nx, IntLit(c)), VarDecl("int", ny, Call(nf, <<IntLit(d)>>)),
     PrintStmt(Binary(Var(nx), "+", Var(ny)))>> : c \in 0..MaxLit, d \in 0..MaxLit}
  \cup
  {<<Show, VarDecl("int", nx, IntLit(c)),
     ExprStmt(Call(ng, <<Binary(Var(nx), "*", IntLit(d))>>))>> :
     c \in 0..MaxLit, d \in 0..MaxLit}

\* a function declared inside a block
NestedFuncPrograms ==
  {<<Block(<<FunctionDecl("int", nf, <<>>,
                Block(<<Return(Binary(IntLit(c), "+", IntLit(d)))>>))>>),
     PrintStmt(IntLit(c))>> : c \in 0..MaxLit, d \in 0..MaxLit}

\* user variables, one of them spelled t1
VarPrograms ==
  {<<VarDecl("int", v, IntLit(c)), VarDecl("int", ny, Binary(IntLit(d), "+", IntLit(1))),
     PrintStmt(Var(w))>> :
     v \in {nx, nt1}, w \in {nx, ny, nt1}, c \in 0..MaxLit, d \in 0..MaxLit}

\* user variables spelled like the words float() reads
WordNames == {<<"n", "a", "n">>, <<"i", "n", "f">>,
              <<"I", "n", "f", "i", "n", "i", "t", "y">>}
WordPrograms ==
  {<<VarDecl("int", v, IntLit(c)), PrintStmt(Var(v))>> :
     v \in WordNames, c \in 0..MaxLit}
  \cup
  {<<VarDecl("int", v, IntLit(c)), PrintStmt(Binary(Var(v), op, IntLit(1)))>> :
     v \in WordNames, c \in 0..1, op \in {"+", "*", "<", "==", "%"}}

\* declarations and assignments across the types, a call with an argument of
\* the wrong type, calls that precede the declaration of the callee
TypePrograms ==
  {<<VarDecl("int", nx, IntLit(c)), VarDecl("float", ny, Var(nx)), PrintStmt(Var(ny))>> :
     c \in 0..MaxLit}
  \cup
  {<<VarDecl("int", nx, BoolLit(b)), PrintStmt(Var(nx))>> : b \in BOOLEAN}
  \cup
  {<<VarDecl("float", ny, IntLit(c)), VarDecl("int", nx, Var(ny)), PrintStmt(Var(nx))>> :
     c \in 0..MaxLit}
  \cup
  {<<VarDecl("int", nx, NoNode), ExprStmt(Assign(nx, BoolLit(b))), PrintStmt(Var(nx))>> :
     b \in BOOLEAN}
  \cup
  {<<VarDecl("float", ny, IntLit(c)), VarDecl("int", nx, NoNode),
     ExprStmt(Assign(nx, Var(ny))), ExprStmt(Assign(ny, Var(nx)))>> : c \in 0..MaxLit}
  \cup
  {<<VarDecl("bool", nx, BoolLit(b)), VarDecl(t, ny, Var(nx))>> :
     b \in BOOLEAN, t \in {"int", "float", "bool"}}
  \cup
  {<<Square, PrintStmt(Call(nf, <<BoolLit(b)>>))>> : b \in BOOLEAN}
  \cup
  {<<PrintStmt(Call(nf, <<IntLit(c)>>)), Square>> : c \in 0..MaxLit}
  \cup
  {<<Twice, AddOne, PrintStmt(Call(nf, <<IntLit(c)>>))>> : c \in 0..MaxLit}

\* names used after the block, the for statement or the function that
\* declares them
ScopePrograms ==
  {<<Block(<<VarDecl("int", nx, IntLit(c))>>), PrintStmt(Var(nx))>> : c \in 0..MaxLit}
  \cup
  {<<For(VarDecl("int", ni, IntLit(c)), Binary(Var(ni), "<", IntLit(1)), Incr(ni),
         PrintStmt(Var(ni))),
     PrintStmt(Var(ni))>> : c \in 0..MaxLit}
  \cup
  {<<FunctionDecl("int", nf, <<Param("int", nn)>>,
        Block(<<VarDecl("int", ny, Var(nn)), Return(Var(ny))>>)),
     PrintStmt(Var(nn)), PrintStmt(Var(ny)), VarDecl("int", nx, Call(nf, <<IntLit(c)>>))>> :
     c \in 0..MaxLit}

\* a block, a for header, a function body or a parameter list that declares
\* the name of a global again
ShadowPrograms ==
  {<<VarDecl("int", nx, IntLit(c)), Block(<<VarDecl("int", nx, IntLit(d))>>),
     PrintStmt(Var(nx))>> : c \in 0..MaxLit, d \in 0..MaxLit}
  \cup
  {<<VarDecl("int", nx, IntLit(c)),
     For(VarDecl("int", nx, IntLit(d)), Binary(Var(nx), "<", IntLit(1)), Incr(nx),
         Block(<<>>)),
     PrintStmt(Var(nx))>> : c \in 0..MaxLit, d \in 0..MaxLit}
  \cup
  {<<VarDecl("int", nx, IntLit(c)),
     FunctionDecl("int", nf, <<>>,
        Block(<<VarDecl("int", nx, IntLit(d)), Return(Var(nx))>>)),
     PrintStmt(Call(nf, <<>>)), PrintStmt(Var(nx))>> : c \in 0..MaxLit, d \in 0..MaxLit}
  \cup
  {<<VarDecl("int", nx, IntLit(c)),
     FunctionDecl("int", nf, <<Param("int", nx)>>,
        Block(<<Incr(nx), Return(Var(nx))>>)),
     PrintStmt(Call(nf, <<IntLit(d)>>)), PrintStmt(Var(nx))>> :
     c \in 0..MaxLit, d \in 0..MaxLit}

\* a return statement outside every function
ReturnPrograms ==
  {<<Return(e)>> : e \in {NoNode} \cup {IntLit(c) : c \in 0..MaxLit}}
  \cup
  {<<PrintStmt(IntLit(c)), Return(NoNode), PrintStmt(IntLit(d))>> :
     c \in 0..MaxLit, d \in 0..MaxLit}
  \cup
  {<<PrintStmt(IntLit(c)), If(BoolLit(b), Return(NoNode), NoNode),
     PrintStmt(IntLit(d))>> : c \in 0..MaxLit, d \in 0..1, b \in BOOLEAN}
  \cup
  {<<Square, PrintStmt(Call(nf, <<IntLit(c)>>)), Return(IntLit(d)),
     PrintStmt(IntLit(d))>> : c \in 0..MaxLit, d \in 0..1}

\* two functions of one name, with a statement between and after them
TwinPrograms ==
  {<<FunctionDecl("int", nf, <<>>, Block(<<Return(IntLit(c))>>)),
     PrintStmt(IntLit(c)),
     FunctionDecl("int", nf, <<>>, Block(<<Return(IntLit(d))>>)),
     PrintStmt(IntLit(d))>> : c \in 0..MaxLit, d \in 0..MaxLit}

\* a loop that follows an if statement or another loop, so that the label it
\* starts with comes right after the label the statement before it ends with
FollowPrograms ==
  {<<VarDecl("int", nx, IntLit(c)),
     If(Binary(Var(nx), "<", IntLit(d)), PrintStmt(Var(nx)), NoNode),
     While(Binary(Var(nx), "<", IntLit(2)), Block(<<PrintStmt(Var(nx)), Incr(nx)>>)),
     PrintStmt(Var(nx))>> : c \in 0..MaxLit, d \in 0..MaxLit}
  \cup
  {<<VarDecl("int", nx, IntLit(c)),
     While(Binary(Var(nx), "<", IntLit(1)), Incr(nx)),
     For(NoNode, Binary(Var(nx), "<", IntLit(d)), Incr(nx), PrintStmt(Var(nx)))>> :
     c \in 0..MaxLit, d \in 0..MaxLit}

Programs ==
  {Program(body) : body \in ShadowPrograms \cup ReturnPrograms \cup TwinPrograms
                          \cup FollowPrograms
                          \cup TypePrograms \cup ScopePrograms \cup ExprPrograms \cup DeclPrograms \cup IfPrograms
                          \cup ForPrograms \cup NestPrograms \cup BlockPrograms
                          \cup CallPrograms \cup NestedFuncPrograms \cup VarPrograms
                          \cup WordPrograms}

(***************************************************************************)
(* Source texts, as the token lists lex returns for them: the programs      *)
(* above written out, and texts with syntax errors.                         *)
(***************************************************************************)
Word(s) == <<[type |-> TypeOfWord(s), lexeme |-> Spell(s)]>>
Ident(name) == <<[type |-> "IDENT", lexeme |-> name]>>

RECURSIVE tokens_of_expr(_)
RECURSIVE tokens_of_args(_, _)
tokens_of_args(args, i) ==
  IF i > Len(args) THEN <<>>
  ELSE (IF i > 1 THEN Word(",") ELSE <<>>) \o tokens_of_expr(args[i])
       \o tokens_of_args(args, i + 1)

tokens_of_expr(e) ==
  CASE e.k = "Literal" ->
         IF e.kind = "bool" THEN Word(IF e.value = Num(1) THEN "true" ELSE "false")
         ELSE IF e.kind = "int" THEN <<[type |-> "INT_LIT", lexeme |-> IntText(e.value[1])]>>
         ELSE <<[type |-> "FLOAT_LIT", lexeme |-> FloatText(e.value)]>>
    [] e.k = "Var" -> Ident(e.name)
    [] e.k = "Assign" -> Ident(e.name) \o Word("=") \o tokens_of_expr(e.value)
    [] e.k = "Call" -> Ident(e.name) \o Word("(") \o tokens_of_args(e.args, 1) \o Word(")")
    [] e.k = "Unary" -> Word(e.op) \o tokens_of_expr(e.right)
    [] e.k = "Binary" -> tokens_of_expr(e.left) \o Word(e.op) \o tokens_of_expr(e.right)
    [] e.k = "Grouping" -> Word("(") \o tokens_of_expr(e.expr) \o Word(")")

RECURSIVE tokens_of_params(_, _)
tokens_of_params(params, i) ==
  IF i > Len(params) THEN <<>>
  ELSE (IF i > 1 THEN Word(",") ELSE <<>>) \o Word(params[i].type) \o Ident(params[i].name)
       \o tokens_of_params(params, i + 1)

RECURSIVE tokens_of_stmt(_)
RECURSIVE tokens_of_stmts(_, _)
tokens_of_stmts(stmts, i) ==
  IF i > Len(stmts) THEN <<>>
  ELSE tokens_of_stmt(stmts[i]) \o tokens_of_stmts(stmts, i + 1)

tokens_of_stmt(s) ==
  CASE s.k = "VarDecl" ->
         Word(s.var_type) \o Ident(s.name)
         \o (IF s.init # NoNode THEN Word("=") \o tokens_of_expr(s.init) ELSE <<>>)
         \o Word(";")
    [] s.k = "Block" -> Word("{") \o tokens_of_stmts(s.statements, 1) \o Word("}")
    [] s.k = "FunctionDecl" ->
         Word(s.return_type) \o Ident(s.name) \o Word("(")
         \o tokens_of_params(s.params, 1) \o Word(")") \o tokens_of_stmt(s.body)
    [] s.k = "If" ->
         Word("if") \o Word("(") \o tokens_of_expr(s.cond) \o Word(")")
         \o tokens_of_stmt(s.then_branch)
         \o (IF s.else_branch # NoNode THEN Word("else") \o tokens_of_stmt(s.else_branch)
             ELSE <<>>)
    [] s.k = "While" ->
         Word("while") \o Word("(") \o tokens_of_expr(s.cond) \o Word(")")
         \o tokens_of_stmt(s.body)
    [] s.k = "For" ->
         Word("for") \o Word("(")
         \o (IF s.init # NoNode THEN tokens_of_stmt(s.init) ELSE Word(";"))
         \o (IF s.cond # NoNode THEN tokens_of_expr(s.cond) ELSE <<>>) \o Word(";")
         \o (IF s.post # NoNode THEN tokens_of_expr(s.post.expr) ELSE <<>>) \o Word(")")
         \o tokens_of_stmt(s.body)
    [] s.k = "Print" ->
         Word("print") \o Word("(") \o tokens_of_expr(s.expr) \o Word(")") \o Word(";")
    [] s.k = "Return" ->
         Word("return") \o (IF s.expr # NoNode THEN tokens_of_expr(s.expr) ELSE <<>>)
         \o Word(";")
    [] s.k = "ExprStmt" -> tokens_of_expr(s.expr) \o Word(";")

\* a text given word by word: a fixed word, a digit, or a one-letter identifier
Written(words) ==
  [i \in 1..Len(words) |->
     IF words[i] \in Words THEN Word(words[i])[1]
     ELSE IF words[i] \in DigitChars THEN [type |-> "INT_LIT", lexeme |-> <<words[i]>>]
     ELSE Ident(<<words[i]>>)[1]]

\* the positions Lexer.tokenize gives the lexemes of a text that has one lexeme
\* on each line, and the EOF token it appends
Lexed(raw) ==
  [i \in 1..Len(raw) + 1 |->
     IF i <= Len(raw) THEN Token(raw[i].type, raw[i].lexeme, i, 1)
     ELSE Token("EOF", <<>>, i, 1)]

D(c) == IntText(c)[1]

\* texts written by hand, well-formed and not
Texts ==
  {<<"int", D(c), ";", "int", "y", ";">> : c \in 0..MaxLit}
  \cup {<<"print", "(", D(c), ";", "int", "y", "=", D(d), ";", "print", "(", "y", ")", ";">> :
          c \in 0..MaxLit, d \in 0..MaxLit}
  \cup {<<"void", "x", ";">>}
  \cup {<<"void", "x", ";", "int", "y", "=", D(c), ";", "print", "(", "y", ")", ";">> :
          c \in 0..MaxLit}
  \cup {<<"void", "x", "=", D(c), ";", "print", "(", D(d), ")", ";">> :
          c \in 0..MaxLit, d \in 0..MaxLit}
  \cup {<<"int", "f", "(", ")", "{", "{", "print", "(", D(c), ")", ";", "}",
          "print", "(", D(d), ")", ";", "}">> : c \in 0..MaxLit, d \in 0..MaxLit}
  \cup {<<"int", "f", "(", ")", "{", "{", "}", "return", D(c), ";", "}",
          "print", "(", "f", "(", ")", ")", ";">> : c \in 0..MaxLit}
  \cup {<<"}", "print", "(", D(c), ")", ";">> : c \in 0..MaxLit}
  \cup {<<D(c), "=", ")", ";", "print", "(", D(d), ")", ";">> : c \in 0..MaxLit, d \in 0..1}
  \cup {<<"print", "(", D(c), ")", "print", "(", D(d), ")", ";">> :
          c \in 0..MaxLit, d \in 0..MaxLit}
  \cup {<<"print", "(", "z", ")", ";", "int", "f", "(", ")", "{", "}",
          "int", "f", "(", ")", "{", "return", D(c), ";", "}">> : c \in 0..MaxLit}
  \cup {<<"{", "print", "(", D(c), ")", ";">> : c \in 0..MaxLit}
  \cup {<<"f", "(", D(c), ",">> : c \in 0..MaxLit}
  \cup {<<"int", "f", "(", w, ")", "{", "print", "(", D(c), ")", ";", "}">> :
          w \in {"x", "int", "void"}, c \in 0..1}
  \cup {<<>>, <<"int">>, <<"x", "=", ";">>, <<"for", "(">>, <<"return">>,
        <<"if", "(", "x", ")", "else">>, <<"print", "(", "x">>, <<"(", "x", ";">>,
        <<"while", "(", "true", ")", "{", "int", "x", ";", ";", "}">>,
        <<"for", "(", "x", "=", "0", ";", ";", ")", ";">>,
        <<"int", "x", "=", "1", "int", "y", "=", "2", ";">>}

\* the operators of the six binary levels of the grammar
BinaryOperators ==
  {"||", "&&", "==", "!=", "<", "<=", ">", ">=", "+", "-", "*", "/", "%"}

\* print(1 op1 2 op2 2); for every pair of binary operators
TwoOperatorTexts ==
  {<<"print", "(", "1", op1, "2", op2, "2", ")", ";">> :
     op1 \in BinaryOperators, op2 \in BinaryOperators}

\* the texts as lists of lexemes, each with the type the lexer is to give it
LexemeLists ==
  {tokens_of_stmts(P.body, 1) : P \in Programs}
  \cup {Written(t) : t \in Texts \cup TwoOperatorTexts}

\* what lex hands the parser
Sources == {Lexed(raw) : raw \in LexemeLists}

\* the characters of the text that has the lexemes raw[i..j], one on each line
RECURSIVE Lines(_, _, _)
Lines(raw, i, j) ==
  IF i > j THEN <<>>
  ELSE IF i = j THEN raw[i].lexeme \o <<"\n">>
  ELSE Lines(raw, i, (i + j) \div 2) \o Lines(raw, (i + j) \div 2 + 1, j)

TextOf(raw) == Lines(raw, 1, Len(raw))

\* short texts made of a letter, a digit, a dot (which starts no token), an
\* equals sign, a blank, a newline, a '\0' and the marks of the comments
Pieces ==
  {<<"a">>, <<"1">>, <<".">>, <<"=">>, <<" ">>, <<"\n">>, <<NUL>>,
   <<"/", "/">>, <<"/", "*">>, <<"*", "/">>}

RECURSIVE PieceTexts(_)
PieceTexts(n) ==
  IF n = 0 THEN {<<>>}
  ELSE LET shorter == PieceTexts(n - 1)
       IN  shorter \cup {s \o p : s \in shorter, p \in Pieces}


(***************************************************************************)
(* CompilerService.compile (services/compiler_service.py), one action per   *)
(* phase from the token list on; the parser runs one iteration of its       *)
(* top-level loop per action and the VM one step per action.  lexer is the  *)
(* Lexer object of lex(src): it is gone (NoNode) once lex has returned, and *)
(* LexSpec below follows it through the iterations of tokenize.             *)
(***************************************************************************)
VARIABLES lexer, tokens, parser, body, phase, ast, sem, ir_code, ir_opt, bytecode, bytecode_opt, vm, steps

vars == <<lexer, tokens, parser, body, phase, ast, sem, ir_code, ir_opt, bytecode, bytecode_opt, vm, steps>>

Init ==
  /\ lexer = NoNode
  /\ tokens \in Sources
  /\ parser = Parser(tokens)
  /\ body = <<>>
  /\ phase = "parsing"
  /\ ast = NoNode
  /\ sem = NoNode
  /\ ir_code = <<>>
  /\ ir_opt = <<>>
  /\ bytecode = <<>>
  /\ bytecode_opt = <<>>
  /\ vm = NoNode
  /\ steps = 0

\* one iteration of `while not self._at_end(): body.append(self.declaration())`
ParseDeclaration ==
  /\ phase = "parsing"
  /\ ~_at_end(parser)
  /\ LET appended(d) == /\ parser' = Progress(parser, d.p)
                        /\ body' = Append(body, d.node)
     IN  appended(declaration(parser))
  /\ UNCHANGED <<lexer, tokens, phase, ast, sem, ir_code, ir_opt, bytecode, bytecode_opt, vm, steps>>

\* return Program(body), self.errors
ParseReturn ==
  /\ phase = "parsing"
  /\ _at_end(parser)
  /\ ast' = Program(body)
  /\ phase' = "parsed"
  /\ UNCHANGED <<lexer, tokens, parser, body, sem, ir_code, ir_opt, bytecode, bytecode_opt, vm, steps>>

Analyze ==
  /\ phase = "parsed"
  /\ sem' = analyze(ast)
  /\ phase' = "analyzed"
  /\ UNCHANGED <<lexer, tokens, parser, body, ast, ir_code, ir_opt, bytecode, bytecode_opt, vm, steps>>

IrGen ==
  /\ phase = "analyzed"
  /\ ir_code' = ir_gen(sem.typed_root)
  /\ phase' = "ir"
  /\ UNCHANGED <<lexer, tokens, parser, body, ast, sem, ir_opt, bytecode, bytecode_opt, vm, steps>>

OptimizeIr ==
  /\ phase = "ir"
  /\ ir_opt' = optimize_ir(ir_code)
  /\ phase' = "optimized"
  /\ UNCHANGED <<lexer, tokens, parser, body, ast, sem, ir_code, bytecode, bytecode_opt, vm, steps>>

Codegen ==
  /\ phase = "optimized"
  /\ bytecode' = codegen(ir_opt)
  /\ phase' = "codegen"
  /\ UNCHANGED <<lexer, tokens, parser, body, ast, sem, ir_code, ir_opt, bytecode_opt, vm, steps>>

Peephole ==
  /\ phase = "codegen"
  /\ bytecode_opt' = peephole(bytecode)
  /\ phase' = "peephole"
  /\ UNCHANGED <<lexer, tokens, parser, body, ast, sem, ir_code, ir_opt, bytecode, vm, steps>>

VMStart ==
  /\ phase = "peephole"
  /\ vm' = VM(bytecode_opt)
  /\ phase' = "vm"
  /\ UNCHANGED <<lexer, tokens, parser, body, ast, sem, ir_code, ir_opt, bytecode, bytecode_opt, steps>>

\* one iteration of `while self.step(): pass`
VMStep ==
  /\ phase = "vm"
  /\ vm.status = "running"
  /\ steps < MaxSteps
  /\ vm' = step(bytecode_opt, vm)
  /\ steps' = steps + 1
  /\ UNCHANGED <<lexer, tokens, parser, body, phase, ast, sem, ir_code, ir_opt, bytecode, bytecode_opt>>

\* run() returned: the result bundle is assembled and returned
Finish ==
  /\ phase = "vm"
  /\ vm.status = "halted"
  /\ phase' = "done"
  /\ UNCHANGED <<lexer, tokens, parser, body, ast, sem, ir_code, ir_opt, bytecode, bytecode_opt, vm, steps>>

Next ==
  \/ ParseDeclaration
  \/ ParseReturn
  \/ Analyze
  \/ IrGen
  \/ OptimizeIr
  \/ Codegen
  \/ Peephole
  \/ VMStart
  \/ VMStep
  \/ Finish

Spec == Init /\ [][Next]_vars
\* the order in which compile runs its phases
PhaseOrder ==
  <<"parsing", "parsed", "analyzed", "ir", "optimized", "codegen", "peephole", "vm", "done">>
PhaseRank(p) == CHOOSE i \in 1..Len(PhaseOrder) : PhaseOrder[i] = p

\* compile goes on from a finished phase to the next one
Proceed ==
  /\ phase \in {"parsed", "analyzed", "ir", "optimized", "codegen", "peephole"}
  /\ phase' = PhaseOrder[PhaseRank(phase) + 1]

\* compile's statements run one after the other, `while self.step(): pass`
\* keeps stepping, and compile returns once run has returned
FairSpec == Spec /\ WF_phase(Proceed) /\ WF_vars(VMStep) /\ WF_vars(Finish)

(***************************************************************************)
(* lex(source) on its own: the Lexer is constructed on a text and tokenize  *)
(* runs one iteration of its loop per action, up to its return.  Spec       *)
(* above starts where lex has returned, from the token lists that lex is    *)
(* shown here to return for the texts of the programs.                      *)
(***************************************************************************)
LexInit ==
  /\ \/ \E src \in PieceTexts(MaxPieces) : lexer = Lexer(src)
     \/ \E raw \in LexemeLists :
          lexer = [Lexer(TextOf(raw)) EXCEPT !.expect = Lexed(raw)]
  /\ tokens = <<>>
  /\ parser = NoNode
  /\ body = <<>>
  /\ phase = "lexing"
  /\ ast = NoNode
  /\ sem = NoNode
  /\ ir_code = <<>>
  /\ ir_opt = <<>>
  /\ bytecode = <<>>
  /\ bytecode_opt = <<>>
  /\ vm = NoNode
  /\ steps = 0

\* an iteration of the loop of tokenize that goes on to the next one
LexToken ==
  /\ phase = "lexing"
  /\ ~tokenize_step(lexer).returned
  /\ lexer' = tokenize_step(lexer)
  /\ UNCHANGED <<tokens, parser, body, phase, ast, sem, ir_code, ir_opt, bytecode, bytecode_opt, vm, steps>>

\* the iteration that appends EOF and returns: tokens_objs = lex(source)
LexReturn ==
  /\ phase = "lexing"
  /\ tokenize_step(lexer).returned
  /\ lexer' = tokenize_step(lexer)
  /\ tokens' = tokenize_step(lexer).out
  /\ phase' = "lexed"
  /\ UNCHANGED <<parser, body, ast, sem, ir_code, ir_opt, bytecode, bytecode_opt, vm, steps>>

LexNext == LexToken \/ LexReturn

LexSpec == LexInit /\ [][LexNext]_vars

(***************************************************************************)
(* Properties.                                                              *)
(***************************************************************************)
Reached(p) == PhaseRank(phase) >= PhaseRank(p)

Types == {"int", "float", "bool", "void", "error"}

\* the identifiers the source program itself spells: declared, read or assigned
\* variables and parameters
RECURSIVE user_names(_)
RECURSIVE user_names_seq(_, _)
user_names_seq(nodes, i) ==
  IF i > Len(nodes) THEN {} ELSE user_names(nodes[i]) \cup user_names_seq(nodes, i + 1)
user_names(node) ==
  LET opt(n) == IF n # NoNode THEN user_names(n) ELSE {}
  IN  CASE node.k = "Program" -> user_names_seq(node.body, 1)
        [] node.k = "FunctionDecl" ->
             {node.params[i].name : i \in 1..Len(node.params)} \cup user_names(node.body)
        [] node.k = "Block" -> user_names_seq(node.statements, 1)
        [] node.k = "VarDecl" -> {node.name} \cup opt(node.init)
        [] node.k = "If" -> user_names(node.cond) \cup user_names(node.then_branch)
                              \cup opt(node.else_branch)
        [] node.k = "While" -> user_names(node.cond) \cup user_names(node.body)
        [] node.k = "For" -> opt(node.init) \cup opt(node.cond) \cup opt(node.post)
                               \cup user_names(node.body)
        [] node.k \in {"Print", "Return", "ExprStmt", "Grouping"} -> opt(node.expr)
        [] node.k = "Assign" -> {node.name} \cup user_names(node.value)
        [] node.k = "Call" -> user_names_seq(node.args, 1)
        [] node.k = "Var" -> {node.name}
        [] node.k = "Unary" -> user_names(node.right)
        [] node.k = "Binary" -> user_names(node.left) \cup user_names(node.right)
        [] OTHER -> {}

\* the variables a declaration of the source introduces
RECURSIVE declared_names(_)
RECURSIVE declared_names_seq(_, _)
declared_names_seq(nodes, i) ==
  IF i > Len(nodes) THEN {}
  ELSE declared_names(nodes[i]) \cup declared_names_seq(nodes, i + 1)
declared_names(node) ==
  LET opt(n) == IF n # NoNode THEN declared_names(n) ELSE {}
  IN  CASE node.k = "Program" -> declared_names_seq(node.body, 1)
        [] node.k = "FunctionDecl" -> declared_names(node.body)
        [] node.k = "Block" -> declared_names_seq(node.statements, 1)
        [] node.k = "VarDecl" -> {node.name}
        [] node.k = "If" -> declared_names(node.then_branch) \cup opt(node.else_branch)
        [] node.k = "While" -> declared_names(node.body)
        [] node.k = "For" -> opt(node.init) \cup declared_names(node.body)
        [] OTHER -> {}

\* every operand an instruction reads, the arguments of a call included
operand_uses(ins) ==
  IF ins.k = "Call" THEN Range(ins.args) ELSE Range(used_vars(ins))
\* the name an instruction writes, the destination of a call included
operand_def(ins) == IF ins.k = "Call" THEN ins.dst ELSE defined_var(ins)

\* the temporaries of the builder: names of the pattern that the source does not spell
BuilderTemp(u) == is_temp(u) /\ u \notin user_names(ast)

TempsDefinedBeforeUse(ir) ==
  \A i \in 1..Len(ir) : \A u \in operand_uses(ir[i]) :
     BuilderTemp(u) => \E j \in 1..(i - 1) : operand_def(ir[j]) = u

\* C1: peephole is idempotent: applying peephole to the bytecode it produced
\* yields the same instruction sequence.
C1_PeepholeIdempotent ==
  Reached("peephole") => peephole(bytecode_opt) = bytecode_opt

\* C2: errors never abort the pipeline: the VM's step never raises on the
\* bytecode the pipeline produced.
C2_VMNeverRaises ==
  phase = "vm" => vm.status # "raised"

\* C3: after analyze, every expression node reachable in the typed AST has an
\* inferred type among int, float, bool, void, error.
C3_AllExpressionsTyped ==
  Reached("analyzed") => inferred_slots(sem.typed_root) \subseteq Types

\* C4: in the optimized IR every builder temporary read by a kept instruction
\* (call arguments included) is the destination of an earlier instruction.
C4_OptimizedTempsDefined ==
  Reached("optimized") => TempsDefinedBeforeUse(ir_opt)

\* C5: dead-code elimination never drops a write to a user variable: every
\* Assign of the IR whose destination is a declared variable is in dce's output.
C5_UserWritesKept ==
  Reached("optimized") =>
    \A i \in 1..Len(ir_code) :
       (ir_code[i].k = "Assign" /\ ir_code[i].dst \in declared_names(ast))
         => ir_code[i] \in Range(ir_opt)

\* the builder as it stands before top-level statement i is lowered
builder_before(stmts, i) == gen_top(IRBuilder, SubSeq(stmts, 1, i - 1), 1)
\* the lowering of statements s1..sn one after the other
lower_in_order(b, stmts) == gen_top(b, stmts, 1)

\* C6: a Block is lowered to the lowering of its statements in source order;
\* the block body of a function appears in full between the surrounding
\* FuncStart and FuncEnd.
C6_BlockLoweredInOrder ==
  Reached("ir") =>
    \A i \in 1..Len(sem.typed_root.body) :
      LET s == sem.typed_root.body[i]
          b == builder_before(sem.typed_root.body, i)
      IN  /\ s.k = "Block" => gen_stmt(b, s) = lower_in_order(b, s.statements)
          /\ s.k = "FunctionDecl" =>
               gen_stmt(b, s) =
                 emit(lower_in_order(emit(b, FuncStart(s.name, param_names(s.params))),
                                     s.body.statements),
                      FuncEnd(s.name))
LabelAt(ir) == {i \in 1..Len(ir) : ir[i].k = "Label"}
JumpAt(ir) == {i \in 1..Len(ir) : ir[i].k \in {"Goto", "IfFalse"}}

\* C7: in the IR of ir_gen no two Label instructions have the same name, and
\* every Goto and IfFalse target is the name of a Label of the same sequence.
C7_LabelsUniqueAndResolved ==
  Reached("ir") =>
    /\ \A i, j \in LabelAt(ir_code) : ir_code[i].name = ir_code[j].name => i = j
    /\ \A i \in JumpAt(ir_code) :
         \E j \in LabelAt(ir_code) : ir_code[j].name = ir_code[i].label

\* nested control flow has been lowered: four labels or more, jumps among them
C7_Witness ==
  /\ phase = "ir"
  /\ Cardinality(LabelAt(ir_code)) >= 4
  /\ Cardinality(JumpAt(ir_code)) >= 4

\* C8: in the unoptimized IR every temporary allocated by new_temp that is
\* read by an instruction is the destination of an instruction at a strictly
\* earlier index.
C8_TempsDefinedBeforeUse ==
  Reached("ir") => TempsDefinedBeforeUse(ir_code)

\* a call whose argument is a temporary, and a Bin that reads a call's result
C8_Witness ==
  /\ phase = "ir"
  /\ \E i \in 1..Len(ir_code) :
       ir_code[i].k = "Call" /\ \E u \in Range(ir_code[i].args) : BuilderTemp(u)
  /\ \E i \in 1..Len(ir_code) :
       ir_code[i].k = "Bin" /\ BuilderTemp(ir_code[i].left)

\* the VM is about to execute RET inside a call
AtRet ==
  /\ phase = "vm"
  /\ vm.status = "running"
  /\ vm.pc < vm.n
  /\ bytecode_opt[vm.pc + 1].k = "RET"
  /\ Len(vm.stack) > 0

\* C9: when the callee of CALL d, f, args at index i executes RET v, execution
\* resumes at i+1 with the caller's environment as it was just before the
\* CALL, except that d, if present, holds v's value in the callee's
\* environment (0 if v is absent).
C9_ReturnRestoresCaller ==
  [][(AtRet /\ steps' = steps + 1) =>
       LET frame == vm.stack[Len(vm.stack)]
           v == bytecode_opt[vm.pc + 1].value
           ret_val == IF v # None THEN _get(vm, v) ELSE Num(0)
           call == bytecode_opt[frame.call_at + 1]
       IN  /\ call.k = "CALL"
           /\ call.dst = frame.ret_dst
           /\ vm'.pc = frame.call_at + 1
           /\ vm'.stack = SubSeq(vm.stack, 1, Len(vm.stack) - 1)
           /\ vm'.env = frame.env
           /\ vm'.envs[vm'.env] =
                IF frame.ret_dst # None THEN MapPut(frame.snap, frame.ret_dst, ret_val)
                ELSE frame.snap]_vars

\* a nested call has returned: the VM stands just after a CALL of a known
\* function, inside another call, with the CALL's destination bound
C9_Witness ==
  /\ phase = "vm"
  /\ Len(vm.stack) >= 1
  /\ vm.pc >= 1
  /\ bytecode_opt[vm.pc].k = "CALL"
  /\ MapHas(vm.func_meta, bytecode_opt[vm.pc].name)
  /\ bytecode_opt[vm.pc].dst # None
  /\ MapHas(vm.envs[vm.env], bytecode_opt[vm.pc].dst)

\* the lines a, a+1, ..., b
LinesFromTo(a, b) == [i \in 1..(b - a + 1) |-> IntText(a + i - 1)]

\* the program is for (int i = a; i <= b; i = i + 1) { print(i); } with a <= b
IsCountingLoop ==
  \E a \in (0 - 1)..MaxLit : \E b \in a..MaxLit : ast = Program(ForLoop(a, b))

bc_operands(ins) ==
  CASE ins.k = "MOV" -> {ins.src}
    [] ins.k = "UNARY" -> {ins.src}
    [] ins.k = "BIN" -> {ins.left, ins.right}
    [] ins.k = "PRINT" -> {ins.value}
    [] ins.k = "IFFALSE" -> {ins.cond}
    [] ins.k = "CALL" -> Range(ins.args)
    [] ins.k = "RET" -> IF ins.value # None THEN {ins.value} ELSE {}
    [] OTHER -> {}

\* an identifier of the source language or a temporary name: its first
\* character is a letter or an underscore
IsName(x) == Len(x) > 0 /\ x[1] \notin DigitChars \cup {"-", "+", "."}

\* the binding of a name: current environment, else globals, else 0
Binding(m, x) ==
  IF MapHas(m.envs[m.env], x) THEN MapGet(m.envs[m.env], x)
  ELSE IF MapHas(m.envs[global_env], x) THEN MapGet(m.envs[global_env], x)
  ELSE Num(0)

\* C11: for every operand that is an identifier or a temporary name, _get
\* returns its value in the current environment if bound there, otherwise its
\* value in the global environment, otherwise 0.
C11_NamesReadFromEnvironment ==
  (phase = "vm" /\ vm.status = "running") =>
    \A i \in 1..Len(bytecode_opt) : \A x \in bc_operands(bytecode_opt[i]) :
       IsName(x) => _get(vm, x) = Binding(vm, x)

\* C12: the parser terminates and returns a Program: every iteration of the
\* top-level loop moves current forward, no block-loop iteration and no error
\* path leaves current where it was before EOF, current never runs past the
\* EOF token, and what parse returns is a Program built once EOF is reached.
C12_ParserConsumesTokens ==
  /\ [](~parser.stalled /\ parser.current < Len(tokens))
  /\ [](phase # "parsing" => ast.k = "Program" /\ _at_end(parser))
  /\ [][(phase = "parsing" /\ phase' = "parsing") => parser'.current > parser.current]_vars

\* a text with a syntax error inside a block has been parsed to the end
C12_Witness ==
  /\ phase = "parsed"
  /\ parser.errors # <<>>
  /\ \E i \in 1..Len(ast.body) :
       /\ ast.body[i].k = "FunctionDecl"
       /\ ast.body[i].body.statements # <<>>

\* the statements of a tree, at every depth
RECURSIVE stmts_of(_)
RECURSIVE stmts_of_seq(_, _)
stmts_of_seq(nodes, i) ==
  IF i > Len(nodes) THEN {} ELSE stmts_of(nodes[i]) \cup stmts_of_seq(nodes, i + 1)
stmts_of(node) ==
  CASE node.k = "None" -> {}
    [] node.k = "Program" -> stmts_of_seq(node.body, 1)
    [] node.k = "FunctionDecl" -> {node} \cup stmts_of(node.body)
    [] node.k = "Block" -> {node} \cup stmts_of_seq(node.statements, 1)
    [] node.k = "If" ->
         {node} \cup stmts_of(node.then_branch) \cup stmts_of(node.else_branch)
    [] node.k = "While" -> {node} \cup stmts_of(node.body)
    [] node.k = "For" ->
         {node} \cup stmts_of(node.init) \cup stmts_of(node.post) \cup stmts_of(node.body)
    [] OTHER -> {node}

TypesAt(i, types) ==
  /\ i + Len(types) - 1 <= Len(tokens)
  /\ \A j \in 1..Len(types) : tokens[i + j - 1].type = types[j]

\* a well-formed variable declaration `T name;` or `T name = literal;` begins at
\* token i
DeclBeginsAt(i) ==
  /\ i <= Len(tokens)
  /\ tokens[i].type \in {"KW_INT", "KW_FLOAT", "KW_BOOL"}
  /\ \/ TypesAt(i + 1, <<"IDENT", "SEMI">>)
     \/ TypesAt(i + 1, <<"IDENT", "ASSIGN", "INT_LIT", "SEMI">>)

\* the node that declaration stands for
DeclAt(i) ==
  VarDecl(Text(tokens[i].lexeme), tokens[i + 1].lexeme,
          IF tokens[i + 2].type = "SEMI" THEN NoNode
          ELSE Literal(Num(DigitsVal(tokens[i + 3].lexeme)), "int"))

\* C13: the token at which error recovery stopped is not discarded: a
\* well-formed declaration that begins at it is parsed and is in the tree.
C13_RecoveryKeepsStopToken ==
  phase = "parsed" =>
    \A k \in 1..Len(parser.stops) :
       DeclBeginsAt(parser.stops[k] + 1) => DeclAt(parser.stops[k] + 1) \in stmts_of(ast)

\* the text begins with `void name;` (n = 3) or `void name = literal;` (n = 5)
VoidDeclTokens ==
  IF TypesAt(1, <<"KW_VOID", "IDENT", "SEMI">>) THEN 3
  ELSE IF TypesAt(1, <<"KW_VOID", "IDENT", "ASSIGN", "INT_LIT", "SEMI">>) THEN 5
  ELSE 0

\* C14: for `void x;` and `void x = e;` the diagnostic about void is recorded,
\* the first declaration parsed is the VarDecl of x, and the parser then stands
\* just after the `;` of that declaration.
C14_VoidDeclarationConsumed ==
  (VoidDeclTokens > 0 /\ Len(body) = 1) =>
    /\ body[1].k = "VarDecl"
    /\ body[1].var_type = "void"
    /\ body[1].name = tokens[2].lexeme
    /\ \E k \in 1..Len(parser.errors) :
         parser.errors[k] =
           ParseError("'void' is not allowed for variable declarations", 1, 1)
    /\ parser.current = VoidDeclTokens

\* from token i on there are print statements and blocks, the braces closing
\* in pairs, the last of them at token j
RECURSIVE PrintsAndBlocks(_, _, _)
PrintsAndBlocks(i, j, depth) ==
  IF i > j THEN FALSE
  ELSE IF tokens[i].type = "LBRACE" THEN PrintsAndBlocks(i + 1, j, depth + 1)
  ELSE IF tokens[i].type = "RBRACE"
       THEN IF depth = 1 THEN i = j ELSE PrintsAndBlocks(i + 1, j, depth - 1)
  ELSE /\ TypesAt(i, <<"KW_PRINT", "LPAREN", "INT_LIT", "RPAREN", "SEMI">>)
       /\ PrintsAndBlocks(i + 5, j, depth)

\* the whole text is one declaration `T f() { ... }`
OneFunctionText ==
  /\ TypesAt(1, <<"KW_INT", "IDENT", "LPAREN", "RPAREN", "LBRACE">>)
  /\ PrintsAndBlocks(6, Len(tokens) - 1, 1)

\* C15: the body of a function declaration holds every statement between its
\* braces and none of them is parsed as a top-level statement, also when the
\* first statement of the body is a block.
C15_FunctionBodyComplete ==
  (OneFunctionText /\ phase = "parsed") =>
    /\ parser.errors = <<>>
    /\ Len(ast.body) = 1
    /\ ast.body[1].k = "FunctionDecl"

\* the expression nodes of a tree, at every depth
RECURSIVE exprs_of(_)
RECURSIVE exprs_of_seq(_, _)
exprs_of_seq(nodes, i) ==
  IF i > Len(nodes) THEN {} ELSE exprs_of(nodes[i]) \cup exprs_of_seq(nodes, i + 1)
exprs_of(node) ==
  CASE node.k = "None" -> {}
    [] node.k = "Program" -> exprs_of_seq(node.body, 1)
    [] node.k = "FunctionDecl" -> exprs_of(node.body)
    [] node.k = "Block" -> exprs_of_seq(node.statements, 1)
    [] node.k = "VarDecl" -> exprs_of(node.init)
    [] node.k = "If" ->
         exprs_of(node.cond) \cup exprs_of(node.then_branch) \cup exprs_of(node.else_branch)
    [] node.k = "While" -> exprs_of(node.cond) \cup exprs_of(node.body)
    [] node.k = "For" ->
         exprs_of(node.init) \cup exprs_of(node.cond) \cup exprs_of(node.post)
         \cup exprs_of(node.body)
    [] node.k \in {"Print", "Return", "ExprStmt"} -> exprs_of(node.expr)
    [] node.k = "Assign" -> {node} \cup exprs_of(node.value)
    [] node.k = "Call" -> {node} \cup exprs_of_seq(node.args, 1)
    [] node.k = "Unary" -> {node} \cup exprs_of(node.right)
    [] node.k = "Binary" -> {node} \cup exprs_of(node.left) \cup exprs_of(node.right)
    [] node.k = "Grouping" -> {node} \cup exprs_of(node.expr)
    [] OTHER -> {node}

Analyzed == phase \notin {"parsing", "parsed"}

Diagnosed(message, name) ==
  \E k \in 1..Len(sem.errors) :
     sem.errors[k].message = message /\ sem.errors[k].name = name

\* e is a call of a known function with the wrong number of arguments, or with
\* an argument that is not assignable to its parameter
CallBreaksRule(e) ==
  /\ e.k = "Call"
  /\ \E f \in sem.func_table :
       /\ f.name = e.name
       /\ \/ Len(e.args) # Len(f.params)
          \/ \E i \in 1..Len(e.args) :
               /\ i <= Len(f.params)
               /\ ~assignable(f.params[i].type, e.args[i].inferred_type)

\* C16: an expression at which a type rule is violated has the inferred type
\* error and a diagnostic is recorded, in particular a call with the wrong
\* number of arguments or with an argument its parameter cannot take.
C16_RuleViolationGivesError ==
  Analyzed =>
    \A e \in exprs_of(sem.typed_root) :
       CallBreaksRule(e) => (e.inferred_type = ERROR /\ sem.errors # <<>>)

Before(a, b) == a.line < b.line \/ (a.line = b.line /\ a.col <= b.col)

\* C17: the parser's diagnostics follow the order of the positions they are
\* recorded at, and the analyzer's diagnostics follow the order of the
\* top-level items they are about.
C17_DiagnosticsInSourceOrder ==
  /\ \A i, j \in 1..Len(parser.errors) :
       i < j => Before(parser.errors[i], parser.errors[j])
  /\ Analyzed =>
       \A i, j \in 1..Len(sem.errors) :
          i < j => sem.errors[i].item <= sem.errors[j].item

DeclaredAtTop(name) ==
  \E i \in 1..Len(ast.body) : ast.body[i].k = "FunctionDecl" /\ ast.body[i].name = name

FirstDeclared(name) ==
  ast.body[CHOOSE i \in 1..Len(ast.body) :
             /\ ast.body[i].k = "FunctionDecl" /\ ast.body[i].name = name
             /\ \A j \in 1..(i - 1) :
                  ~(ast.body[j].k = "FunctionDecl" /\ ast.body[j].name = name)]

\* C18: a call of a function declared at top level is never reported as a call
\* to an undefined function and has the return type of the declaration,
\* wherever the declaration stands: before the call, after it, or around it.
C18_CallsResolveInAnyOrder ==
  Analyzed =>
    \A e \in exprs_of(sem.typed_root) :
       (e.k = "Call" /\ DeclaredAtTop(e.name)) =>
         /\ ~Diagnosed("Call to undefined function", e.name)
         /\ e.inferred_type = FirstDeclared(e.name).return_type

\* a top-level statement calls a function declared after it, without diagnostics
C18_Witness ==
  /\ phase = "analyzed"
  /\ Len(ast.body) = 2
  /\ ast.body[1].k = "Print"
  /\ ast.body[1].expr.k = "Call"
  /\ ast.body[2].k = "FunctionDecl"
  /\ ast.body[2].name = ast.body[1].expr.name
  /\ sem.errors = <<>>

TYPES == {INT, FLOAT, BOOL, VOID, ERROR}

\* C19: assignable(to, from) holds exactly for equal types, for int to float
\* and for void to void; a float declaration initialised with an int leaves no
\* diagnostic, a declaration or assignment of a bool or float to an int
\* variable leaves one.
C19_AssignableTable ==
  /\ \A to \in TYPES, from \in TYPES :
       assignable(to, from) <=>
         (to = from \/ (to = FLOAT /\ from = INT) \/ (to = VOID /\ from = VOID))
  /\ Analyzed =>
       /\ \A d \in stmts_of(sem.typed_root) :
            (d.k = "VarDecl" /\ d.init # NoNode) =>
              /\ (d.var_type = FLOAT /\ d.init.inferred_type = INT)
                   => ~Diagnosed("Cannot assign in declaration", d.name)
              /\ (d.var_type = INT /\ d.init.inferred_type \in {BOOL, FLOAT})
                   => Diagnosed("Cannot assign in declaration", d.name)
       /\ \A e \in exprs_of(sem.typed_root) :
            (/\ e.k = "Assign"
             /\ resolve(sem.symbol_table, e.name) = INT
             /\ e.value.inferred_type \in {BOOL, FLOAT})
              => (e.inferred_type = ERROR /\ Diagnosed("Cannot assign", e.name))

\* `int x = c; float y = x;` analysed without a diagnostic
C19_Witness ==
  /\ phase = "analyzed"
  /\ sem.errors = <<>>
  /\ \E d \in stmts_of(sem.typed_root) :
       /\ d.k = "VarDecl"
       /\ d.var_type = FLOAT
       /\ d.init # NoNode
       /\ d.init.k = "Var"
       /\ d.init.inferred_type = INT

\* the top-level variable declarations, the first of a name
TopLevelSymbols ==
  {Symbol(ast.body[i].name, ast.body[i].var_type) :
     i \in {i \in 1..Len(ast.body) :
              /\ ast.body[i].k = "VarDecl"
              /\ \A j \in 1..(i - 1) :
                   ~(ast.body[j].k = "VarDecl" /\ ast.body[j].name = ast.body[i].name)}}

\* C20: scope pushes and pops balance: after analysis the symbol table is one
\* scope holding the top-level variable declarations, and a top-level use of
\* a name no earlier top-level declaration introduced is reported as
\* undeclared, whatever block, function or for statement declared it before.
C20_ScopesBalanced ==
  Analyzed =>
    /\ Len(sem.symbol_table) = 1
    /\ sem.symbol_table[1] = TopLevelSymbols
    /\ \A i \in 1..Len(ast.body) :
         (/\ ast.body[i].k = "Print"
          /\ ast.body[i].expr.k = "Var"
          /\ \A j \in 1..(i - 1) :
               ~(ast.body[j].k = "VarDecl" /\ ast.body[j].name = ast.body[i].expr.name))
           => \E k \in 1..Len(sem.errors) :
                /\ sem.errors[k].message = "Undeclared variable"
                /\ sem.errors[k].name = ast.body[i].expr.name
                /\ sem.errors[k].item = i

\* a name declared in a for header, in a block or in a function is printed
\* after the construct
C20_Witness ==
  /\ phase = "analyzed"
  /\ Len(ast.body) >= 2
  /\ ast.body[2].k = "Print"
  /\ ast.body[2].expr.k = "Var"
  /\ \/ /\ ast.body[1].k = "For"
        /\ ast.body[1].init.k = "VarDecl"
        /\ ast.body[1].init.name = ast.body[2].expr.name
     \/ /\ ast.body[1].k = "FunctionDecl"
        /\ \E i \in 1..Len(ast.body[1].params) :
             ast.body[1].params[i].name = ast.body[2].expr.name
  /\ Diagnosed("Undeclared variable", ast.body[2].expr.name)

\* the statement opens a scope whose first declaration is of the name: a
\* block or a function body that begins with it, a for header, a parameter
RECURSIVE DeclaresAgain(_, _)
DeclaresAgain(s, name) ==
  \/ /\ s.k = "Block"
     /\ Len(s.statements) >= 1
     /\ s.statements[1].k = "VarDecl"
     /\ s.statements[1].name = name
  \/ /\ s.k = "For"
     /\ s.init.k = "VarDecl"
     /\ s.init.name = name
  \/ /\ s.k = "FunctionDecl"
     /\ \/ \E i \in 1..Len(s.params) : s.params[i].name = name
        \/ DeclaresAgain(s.body, name)

\* the program declares a global with a literal, then has only statements
\* that declare the name again in a scope of their own or print, and ends
\* with a print of the name
ShadowsGlobal ==
  /\ Len(ast.body) >= 3
  /\ ast.body[1].k = "VarDecl"
  /\ ast.body[1].init.k = "Literal"
  /\ ast.body[Len(ast.body)] = PrintStmt(Var(ast.body[1].name))
  /\ \E i \in 2..(Len(ast.body) - 1) : DeclaresAgain(ast.body[i], ast.body[1].name)
  /\ \A i \in 2..(Len(ast.body) - 1) :
       \/ DeclaresAgain(ast.body[i], ast.body[1].name)
       \/ ast.body[i].k = "Print"

\* C21: in a valid source where a block, a for header or a function body
\* declares the name of a variable of an enclosing scope again, the writes to
\* the inner variable leave the outer one alone: the name read after the
\* inner scope has ended gives the outer variable's last value.
C21_ShadowingIsLexical ==
  (/\ phase = "done"
   /\ parser.errors = <<>>
   /\ sem.errors = <<>>
   /\ ShadowsGlobal)
    => /\ Len(vm.output) >= 1
       /\ vm.output[Len(vm.output)] = _fmt(ast.body[1].init.value)

\* the machine is about to execute a RET while no call is active
RetAtTop ==
  /\ phase = "vm"
  /\ vm.status = "running"
  /\ vm.pc < vm.n
  /\ bytecode_opt[vm.pc + 1].k = "RET"
  /\ Len(vm.stack) = 0

\* the i-th top-level statement is a return that only prints of literals
\* precede
ReturnAfterPrints(i) ==
  /\ parser.errors = <<>>
  /\ i \in 1..Len(ast.body)
  /\ ast.body[i].k = "Return"
  /\ \A j \in 1..(i - 1) : ast.body[j].k = "Print" /\ ast.body[j].expr.k = "Literal"

\* C22: a RET executed with an empty call stack halts the machine: no
\* instruction executes after it and the output is the lines printed before
\* it; a program that is only a top-level return has empty output and no
\* diagnostics.
C22_TopLevelReturnHalts ==
  /\ [][RetAtTop => vm'.status = "halted" /\ vm'.output = vm.output]_vars
  /\ [][(phase = "vm" /\ vm.status = "halted") => vm' = vm]_vars
  /\ [](phase = "done" =>
          \A i \in 1..Len(ast.body) :
            ReturnAfterPrints(i) =>
              vm.output = [j \in 1..(i - 1) |-> _fmt(ast.body[j].expr.value)])
  /\ [](Analyzed /\ parser.errors = <<>> /\ Len(ast.body) = 1 /\ ast.body[1].k = "Return"
          => sem.errors = <<>>)

\* a return between two top-level prints: the RET has a PRINT behind it and
\* the run ended with one line of output
C22_Witness ==
  /\ phase = "done"
  /\ ReturnAfterPrints(2)
  /\ Len(ast.body) = 3
  /\ \E i \in 1..(Len(bytecode_opt) - 1) :
       bytecode_opt[i].k = "RET" /\ bytecode_opt[i + 1].k = "PRINT"
  /\ Len(vm.output) = 1

\* FUNC instructions less ENDFUNC instructions among code[i..j]
FuncDepth(code, i, j) ==
  Cardinality({m \in i..j : code[m].k = "FUNC"})
  - Cardinality({m \in i..j : code[m].k = "ENDFUNC"})

\* the ENDFUNC that closes the FUNC at code[i]
IsMatchingEnd(code, i, j) ==
  /\ j \in i..Len(code)
  /\ FuncDepth(code, i, j) = 0
  /\ \A m \in i..(j - 1) : FuncDepth(code, i, m) > 0

\* the machine is about to execute a FUNC while no call is active
FuncAtTop ==
  /\ phase = "vm"
  /\ vm.status = "running"
  /\ vm.pc < vm.n
  /\ bytecode_opt[vm.pc + 1].k = "FUNC"
  /\ Len(vm.stack) = 0

\* C25: a FUNC executed with an empty call stack sets pc just behind the
\* ENDFUNC that matches this very FUNC, so that no instruction of a function
\* body runs at top level and no top-level instruction is skipped, whether or
\* not the function names of the bytecode are distinct.
C25_FuncSkipsToOwnEnd ==
  [][FuncAtTop =>
       \A j \in 1..Len(bytecode_opt) :
         IsMatchingEnd(bytecode_opt, vm.pc + 1, j) => vm'.pc = j]_vars

\* the level of a binary operator in the grammar, the loosest first
Level(op) ==
  CASE op = "||" -> 1
    [] op = "&&" -> 2
    [] op \in {"==", "!="} -> 3
    [] op \in {"<", "<=", ">", ">="} -> 4
    [] op \in {"+", "-"} -> 5
    [] op \in {"*", "/", "%"} -> 6

IsOperand(t) == t.type \in {"INT_LIT", "IDENT"}
IsBinaryOperator(t) == t.lexeme \in {Spell(op) : op \in BinaryOperators}

\* the text is print(a op1 b op2 c); with operands a, b, c
TwoOperatorText ==
  /\ Len(tokens) = 10
  /\ tokens[1].type = "KW_PRINT" /\ tokens[2].type = "LPAREN"
  /\ IsOperand(tokens[3]) /\ IsBinaryOperator(tokens[4]) /\ IsOperand(tokens[5])
  /\ IsBinaryOperator(tokens[6]) /\ IsOperand(tokens[7])
  /\ tokens[8].type = "RPAREN" /\ tokens[9].type = "SEMI"

\* the expression the parser makes of one operand token
Operand(i) == primary([Parser(tokens) EXCEPT !.current = i - 1]).node

\* C23: the binary operators bind by level, logical-or loosest, then
\* logical-and, equality, relational, additive, multiplicative, and operators
\* of one level associate to the left: a op1 b op2 c is
\* Binary(a, op1, Binary(b, op2, c)) when op2 is of a strictly higher level
\* than op1 and Binary(Binary(a, op1, b), op2, c) otherwise.
C23_PrecedenceAndAssociativity ==
  (phase # "parsing" /\ TwoOperatorText) =>
    LET op1 == Text(tokens[4].lexeme)
        op2 == Text(tokens[6].lexeme)
    IN  /\ parser.errors = <<>>
        /\ ast = Program(<<PrintStmt(
                   IF Level(op2) > Level(op1)
                   THEN Binary(Operand(3), op1, Binary(Operand(5), op2, Operand(7)))
                   ELSE Binary(Binary(Operand(3), op1, Operand(5)), op2, Operand(7)))>>)

\* 1 + 2 * 2 has been parsed, with root '+' and the product on its right
C23_Witness ==
  /\ phase = "parsed"
  /\ TwoOperatorText
  /\ Text(tokens[4].lexeme) = "+"
  /\ Text(tokens[6].lexeme) = "*"
  /\ ast.body[1].expr.op = "+"
  /\ ast.body[1].expr.right.k = "Binary"
  /\ ast.body[1].expr.right.op = "*"

\* the operand is the text of an integer constant
IntegerConstant(x) ==
  x # None /\ _parse_num(x) # None /\ is_integer(_parse_num(x))

\* the instruction is a Bin over two integer constants
BinOfConstants(ins) ==
  ins.k = "Bin" /\ IntegerConstant(ins.left) /\ IntegerConstant(ins.right)

\* C27: constant folding agrees with the machine: for the operators + - * %
\* < <= > >= == != && || and integer constants a and b, constant_fold puts
\* Assign(dst, c) in the place of Bin(dst, op, a, b), c being the text of the
\* value BIN would store in dst for a and b; % and / by zero stay the Bin they
\* were; instructions other than Bin and Unary pass through unchanged, and
\* the result has the length and the order of the input.
C27_FoldAgreesWithVM ==
  Reached("ir") =>
    LET out == constant_fold(ir_code)
        stored(ins) == bin_value(ins.op, _parse_num(ins.left), _parse_num(ins.right))
    IN  /\ Len(out) = Len(ir_code)
        /\ \A i \in 1..Len(ir_code) :
             /\ (BinOfConstants(ir_code[i]) /\ ir_code[i].op \in {"%", "/"}
                 /\ IsZero(_parse_num(ir_code[i].right)))
                  => out[i] = ir_code[i]
             /\ (BinOfConstants(ir_code[i]) /\ ir_code[i].op \in BinOps \ {"/"}
                 /\ ~(ir_code[i].op = "%" /\ IsZero(_parse_num(ir_code[i].right))))
                  => /\ out[i] = AssignInstr(ir_code[i].dst, _fmt(stored(ir_code[i])))
                     /\ _parse_num(out[i].src) = stored(ir_code[i])
             /\ ir_code[i].k \notin {"Bin", "Unary"} => out[i] = ir_code[i]

\* the optimizer has run on a program with a difference of constants that is
\* negative
C27_Witness ==
  /\ Reached("optimized")
  /\ \E i \in 1..Len(ir_code) :
       /\ BinOfConstants(ir_code[i])
       /\ ir_code[i].op = "-"
       /\ FLt(_parse_num(ir_code[i].left), _parse_num(ir_code[i].right))
       /\ constant_fold(ir_code)[i].k = "Assign"

\* the machine is about to execute an instruction, and does
Executes ==
  /\ phase = "vm"
  /\ vm.status = "running"
  /\ vm.pc < vm.n
  /\ steps' = steps + 1

\* two environments with the same bindings, but for the name
SameBut(env1, env2, name) ==
  {e \in env1 : e[1] # name} = {e \in env2 : e[1] # name}

\* C29: while the call stack is not empty, MOV, UNARY and BIN write to the
\* callee's fresh environment only and the global environment does not
\* change: a global variable keeps its value across a call, but for the
\* return value stored in the destination of a frame whose saved environment
\* is the global one.
C29_CalleeWritesStayLocal ==
  /\ [][(Executes /\ Len(vm.stack) > 0) =>
          LET ins == bytecode_opt[vm.pc + 1]
              frame == vm.stack[Len(vm.stack)]
          IN  /\ vm.env # global_env
              /\ ins.k \in {"MOV", "UNARY", "BIN"} =>
                   /\ vm'.env = vm.env
                   /\ DOMAIN vm'.envs = DOMAIN vm.envs
                   /\ \A e \in DOMAIN vm.envs : e # vm.env => vm'.envs[e] = vm.envs[e]
              /\ vm'.envs[global_env] # vm.envs[global_env] =>
                   /\ ins.k \in {"RET", "ENDFUNC"}
                   /\ frame.env = global_env
                   /\ frame.ret_dst # None
                   /\ SameBut(vm'.envs[global_env], vm.envs[global_env], frame.ret_dst)]_vars
  /\ [][(Executes /\ bytecode_opt[vm.pc + 1].k = "CALL"
         /\ MapHas(vm.func_meta, bytecode_opt[vm.pc + 1].name)) =>
          /\ vm'.env \notin DOMAIN vm.envs
          /\ \A e \in DOMAIN vm.envs : vm'.envs[e] = vm.envs[e]]_vars

\* inside a call, a MOV or a BIN has just written a name that the global
\* environment binds as well, and the two bindings differ
C29_Witness ==
  /\ phase = "vm"
  /\ Len(vm.stack) > 0
  /\ vm.pc >= 1
  /\ bytecode_opt[vm.pc].k \in {"MOV", "BIN"}
  /\ MapHas(vm.envs[vm.env], bytecode_opt[vm.pc].dst)
  /\ MapHas(vm.envs[global_env], bytecode_opt[vm.pc].dst)
  /\ MapGet(vm.envs[vm.env], bytecode_opt[vm.pc].dst)
       # MapGet(vm.envs[global_env], bytecode_opt[vm.pc].dst)

\* C30: in every state of the machine 0 <= pc <= n, n being the number of
\* instructions; the current environment is the global one whenever the call
\* stack is empty, and the bottom frame of a stack that is not empty saves
\* the global environment.  The stack grows only by a CALL of a known
\* function, and shrinks, by exactly one frame, only by a RET or an ENDFUNC
\* executed with a stack that is not empty.
C30_MachineInvariants ==
  /\ [](phase \in {"vm", "done"} =>
          /\ vm.n = Len(bytecode_opt)
          /\ vm.pc \in 0..vm.n
          /\ Len(vm.stack) = 0 => vm.env = global_env
          /\ Len(vm.stack) > 0 => vm.stack[1].env = global_env)
  /\ [][(phase = "vm" /\ Len(vm'.stack) > Len(vm.stack)) =>
          /\ Executes
          /\ bytecode_opt[vm.pc + 1].k = "CALL"
          /\ MapHas(vm.func_meta, bytecode_opt[vm.pc + 1].name)
          /\ Len(vm'.stack) = Len(vm.stack) + 1]_vars
  /\ [][(phase = "vm" /\ Len(vm'.stack) < Len(vm.stack)) =>
          /\ Executes
          /\ bytecode_opt[vm.pc + 1].k \in {"RET", "ENDFUNC"}
          /\ Len(vm'.stack) = Len(vm.stack) - 1]_vars

\* a call made inside a call has returned to its caller, whose own frame is
\* still on the stack
C30_Witness ==
  /\ phase = "vm"
  /\ Len(vm.stack) = 1
  /\ vm.env # global_env
  /\ vm.pc >= 1
  /\ bytecode_opt[vm.pc].k = "CALL"
  /\ MapHas(vm.func_meta, bytecode_opt[vm.pc].name)
  /\ bytecode_opt[vm.pc].dst # None
  /\ MapHas(vm.envs[vm.env], bytecode_opt[vm.pc].dst)

\* the instruction at code[i] is one peephole is to drop: a MOV of a name to
\* itself, or a JMP to the label that follows it once such MOVs are gone
Droppable(code, i) ==
  \/ code[i].k = "MOV" /\ code[i].dst = code[i].src
  \/ /\ code[i].k = "JMP"
     /\ \E j \in (i + 1)..Len(code) :
          /\ code[j] = BLabel(code[i].label)
          /\ \A m \in (i + 1)..(j - 1) : code[m].k = "MOV" /\ code[m].dst = code[m].src

\* the places of the instructions of code that do something and stay
Working(code) ==
  LET stays(i) == code[i].k # "LABEL" /\ ~Droppable(code, i)
  IN  SelectSeq([i \in 1..Len(code) |-> i], stays)

\* the places of the instructions of code other than labels
NotLabels(code) ==
  LET real(i) == code[i].k # "LABEL"
  IN  SelectSeq([i \in 1..Len(code) |-> i], real)

\* how many of the places listed in idx lie before p
Before_p(idx, p) == Cardinality({k \in 1..Len(idx) : idx[k] < p})

WithoutTarget(ins) ==
  IF ins.k \in {"JMP", "IFFALSE"} THEN [ins EXCEPT !.label = None] ELSE ins

DefinedAt(code, name) == {p \in 1..Len(code) : code[p] = BLabel(name)}

\* out has the working instructions of code, in order, and each jump whose
\* label code defines has in out a label defined at the same place among them
TargetsKept(code, out) ==
  LET a == Working(code)
      b == NotLabels(out)
  IN  /\ Len(a) = Len(b)
      /\ \A k \in 1..Len(a) :
           /\ WithoutTarget(out[b[k]]) = WithoutTarget(code[a[k]])
           /\ code[a[k]].k \in {"JMP", "IFFALSE"} =>
                \A p \in DefinedAt(code, code[a[k]].label) :
                  \E q \in DefinedAt(out, out[b[k]].label) :
                    Before_p(b, q) = Before_p(a, p)

EachLabelOnce(code) ==
  \A p \in 1..Len(code) : \A q \in 1..Len(code) :
    (code[p].k = "LABEL" /\ code[q] = code[p]) => p = q

\* C28: peephole keeps the behaviour of a bytecode in which each label is
\* defined at most once: run on the machine, peephole(code) halts exactly when
\* code halts and prints the same lines, and every JMP and IFFALSE whose
\* target is a label of code has, after the renaming, a label of
\* peephole(code) at the equivalent position for target.
C28_PeepholeKeepsBehaviour ==
  (Reached("vm") /\ EachLabelOnce(bytecode)) =>
    /\ TargetsKept(bytecode, bytecode_opt)
    /\ phase = "done" =>
         /\ run(bytecode, 2 * MaxSteps).status = "halted"
         /\ run(bytecode, 2 * MaxSteps).output = vm.output
    /\ vm.status = "raised" =>
         /\ run(bytecode, 2 * MaxSteps).status = "raised"
         /\ run(bytecode, 2 * MaxSteps).output = vm.output
    /\ (vm.status = "running" /\ steps = MaxSteps) =>
         run(bytecode, MaxSteps).status = "running"

\* a loop has printed and run to its end (no statement outside a loop
\* prints), and its backward JMP names in bytecode a label that peephole
\* dropped, so that the JMP had to be renamed
C28_Witness ==
  /\ phase = "done"
  /\ EachLabelOnce(bytecode)
  /\ Len(vm.output) >= 1
  /\ \A k \in 1..Len(ast.body) : ast.body[k].k \in {"VarDecl", "While", "For"}
  /\ \E i \in 1..Len(bytecode) :
       /\ bytecode[i].k = "JMP"
       /\ \E p \in DefinedAt(bytecode, bytecode[i].label) : p < i
       /\ DefinedAt(bytecode_opt, bytecode[i].label) = {}

\* two runs came to the same end: both halted, both raised or both cut off,
\* and a run that ended printed what the other printed
SameBehaviour(a, b) ==
  /\ a.status = b.status
  /\ a.status # "running" => a.output = b.output

\* C26: the bytecode generated from optimize_ir(ir) behaves on the machine as
\* the bytecode generated from ir does, with the same lines of output and the
\* same halting, for the IR of every program, those whose call arguments are
\* compound expressions among them.
C26_OptimizerKeepsBehaviour ==
  Reached("optimized") =>
    SameBehaviour(run(codegen(ir_opt), 2 * MaxSteps), run(codegen(ir_code), 2 * MaxSteps))

\* the line and the column of the p-th character of src, counted from the
\* text alone: one line more for every newline before it, and the column the
\* number of characters since the last of them
LineOf(src, p) == 1 + Cardinality({q \in 1..(p - 1) : src[q] = "\n"})
ColOf(src, p) ==
  1 + Cardinality({q \in 1..(p - 1) : \A r \in q..(p - 1) : src[r] # "\n"})

\* the lexeme of the token stands in src from the p-th character on, and the
\* token has the line and the column of that character
StartsAt(src, token, p) ==
  /\ p + Len(token.lexeme) - 1 <= Len(src)
  /\ SubSeq(src, p, p + Len(token.lexeme) - 1) = token.lexeme
  /\ token.line = LineOf(src, p)
  /\ token.col = ColOf(src, p)

\* C24: on every source text lex terminates (each iteration of the loop of
\* tokenize consumes a character of the text or returns) and returns a token
\* list whose last token, and no other, is EOF; the line and the column of
\* each token are the 1-based place of the first character of its lexeme,
\* every newline, those inside comments too, starting a new line at column 1.
\* For the text of a program, written with one lexeme on each line, the list
\* is the one the pipeline is started from.
C24_LexPositions ==
  /\ [](phase = "lexing" => lexer.pos \in 0..lexer.n /\ ~lexer.returned)
  /\ [][lexer'.pos > lexer.pos \/ lexer'.returned]_vars
  /\ [](\A i \in 1..Len(lexer.out) :
          IF lexer.out[i].type = "EOF"
          THEN lexer.returned /\ i = Len(lexer.out)
          ELSE \E p \in 1..Len(lexer.src) : StartsAt(lexer.src, lexer.out[i], p))
  /\ [](phase = "lexed" =>
          /\ tokens = lexer.out
          /\ Len(tokens) >= 1
          /\ tokens[Len(tokens)].type = "EOF"
          /\ lexer.expect # None => tokens = lexer.expect)

\* lex has returned from a text that begins with a block comment holding a
\* newline; the token behind the comment is on line 2
C24_Witness ==
  /\ phase = "lexed"
  /\ Len(lexer.src) >= 6
  /\ SubSeq(lexer.src, 1, 5) = <<"/", "*", "\n", "*", "/">>
  /\ Len(tokens) = 2
  /\ tokens[1].line = 2
  /\ tokens[1].col = 3
====
